---- MODULE Spec2Model ----
(***************************************************************************)
(* Research -> Write -> Review -> Knowledge pipeline with its vector store *)
(* (remote Milvus binding + local JSON fallback file) and relational store.*)
(* Every operator below is a translation of the Python function of the     *)
(* same name.                                                              *)
(***************************************************************************)
EXTENDS Integers, Sequences, FiniteSets, TLC

(***************************************************************************)
(* Bounds of the model.                                                    *)
(***************************************************************************)
\* longest local list the free store API may build
MaxDocs == 2
\* most rows the free store API puts into the remote collection
MaxRemote == 1
\* largest limit passed to a search by the free store API
MaxLimit == 2
\* number of injected dependency failures in one behaviour
MaxFaults == 1
\* largest quality score handed to the assessment step on its own
MaxScore == 100
\* generate_report requests a behaviour accepts
MaxRequests == 2
\* tokens (words and spaces) of a chat-bot message
MaxTokens == 3

(***************************************************************************)
(* Program constants.                                                      *)
(***************************************************************************)
\* width of the zero vector substituted for a missing embedding
EmbeddingDim == 1024
\* limit write_report passes to search_similar_documents
WriterLimit == 5
\* sentinel id save_report returns when nothing was persisted
SentinelId == 1

\* The three store clients of one OrchestratorAgent: ResearchAgent.milvus_client,
\* WriterAgent.milvus_client and KnowledgeAgent.milvus_client.
Clients == {"research", "writer", "knowledge"}

VARIABLES
    file,       \* milvus_data.json: [state: absent|ok|corrupt, text: JSON array]
    remote,     \* the Milvus server: [exists: collection exists, rows: its rows]
    connected,  \* pymilvus connection alias "default" of the process
    client,     \* client[c]: the fields of one MilvusClient object
    ret,        \* what the MilvusClient call of the last operation returned (none: no call)
    kret,       \* what the last call returned, if it was a KnowledgeAgent call
    faults,     \* dependency failures injected so far
    held,       \* history: the list of the client that inserted last, and whether
                \* any write of the file has failed
    backend0,   \* history: client[c].use_milvus when its constructor returned
    env,        \* which services are reachable: the Milvus server, PostgreSQL
    cfg,        \* config/settings.py: USE_MILVUS, and whether an API key is set
    agent,      \* capability flags the agents' constructors set
    pg,         \* PostgreSQL: the agents' connections and research_reports
    task,       \* arguments of execute_research_task: topic, depth
    pc,         \* position of the orchestrator's caller thread
    run,        \* loop variables: i (round of the for loop), k (chunk in the round)
    report,     \* the local `report` of execute_research_task
    final_result, \* the local `final_result` of execute_research_task
    clock,      \* time.time(), in seconds
    inserted,   \* history: contents the run handed to insert_document, in order
    pret,       \* what the last PostgresClient call returned to its caller
    writer_docs,     \* the local `doc_contents` of the last write_report
    research_result, \* what the last process_research_topic returned
    embedded,   \* history: per chunk of the research stage, whether embed_query
                \* gave no vector, and the embedding handed to insert_document
    stages,     \* history: the stage calls of execute_research_task, in order
    reports,    \* app.py: the module-level dict `reports`, by report id
    conversations, \* app.py: the module-level dict `conversations`, by conversation id
    threads,    \* the ReportGenerator threads, by report id: position and arguments
    request,    \* the request (or chat-bot message) handled last
    response    \* what its handler returned

storeVars == <<file, remote, connected, client, ret, held, backend0>>

appVars == <<reports, conversations, threads, request, response>>


pipeVars == <<env, cfg, agent, pg, task, pc, run, report, final_result, clock, inserted,
              pret, writer_docs, research_result, embedded, stages, appVars>>

vars == <<file, remote, connected, client, ret, kret, faults, held, backend0,
          env, cfg, agent, pg, task, pc, run, report, final_result, clock, inserted,
          pret, writer_docs, research_result, embedded, stages,
          reports, conversations, threads, request, response>>

(***************************************************************************)
(* Values.                                                                 *)
(***************************************************************************)
\* A text is named by what built it: kind "sample" (the research content of a
\* round), "chunk" (part-th chunk of it), "default" (the writer's placeholder
\* document), "template" (the writer's templated report over `part` documents,
\* `rep` of whose previews carry the boilerplate phrase), "llm" (the part-th
\* sample answer of the generation model).
\* `blen` is the length of a template's preview block, `ph` whether a preview
\* carries a placeholder pattern and `pt` whether a preview carries a title line.
TextR(kind, topic, round, part, rep, blen, ph, pt) ==
    [kind |-> kind, topic |-> topic, round |-> round, part |-> part, rep |-> rep,
     blen |-> blen, ph |-> ph, pt |-> pt]

Text(kind, topic, round, part) == TextR(kind, topic, round, part, 0, 0, FALSE, FALSE)

\* f"Research on {topic}" (round 0: the plain topic), or "unknown"
Source(label, topic, round) == [label |-> label, topic |-> topic, round |-> round]

\* [0.0] * 1024
ZeroEmbedding == [dim |-> EmbeddingDim, zero |-> TRUE]

\* the keys of a stored document, in the order insert_document builds the dict
DocKeys == <<"id", "content", "embedding", "source", "timestamp">>

\* the object a client is before __init__ ran: no attribute is set
NoClient ==
    [made |-> FALSE, use_milvus |-> FALSE, collection |-> FALSE,
     hasLocal |-> FALSE, local_data |-> <<>>]

NoRet == [op |-> "none", client |-> "none", raised |-> FALSE, ok |-> FALSE,
          hits |-> <<>>, limit |-> 0, served |-> "none"]

Returned(op, c) == [NoRet EXCEPT !.op = op, !.client = c]

Raised(op, c) == [NoRet EXCEPT !.op = op, !.client = c, !.raised = TRUE]

(***************************************************************************)
(* json.dump / json.load of the fallback file.  A Python dict is a record; *)
(* the JSON text of a dict is the sequence of its (key, value) members in  *)
(* insertion order, and the file is the sequence of those objects.         *)
(***************************************************************************)
\* variant that writes an empty vector to keep the file small (C9 rejects it)
json_dump_object_no_vector(doc) ==
    [k \in 1..Len(DocKeys) |->
        <<DocKeys[k], IF DocKeys[k] = "embedding" THEN <<>> ELSE doc[DocKeys[k]]>>]

json_dump_object(doc) == [k \in 1..Len(DocKeys) |-> <<DocKeys[k], doc[DocKeys[k]]>>]

json_dump(local_data) == [i \in 1..Len(local_data) |-> json_dump_object(local_data[i])]

json_load_object(obj) ==
    [key \in {obj[k][1] : k \in DOMAIN obj} |->
        LET k == CHOOSE j \in DOMAIN obj :
                    /\ obj[j][1] = key
                    /\ \A j2 \in DOMAIN obj : obj[j2][1] = key => j2 <= j
        IN  obj[k][2]]

json_load(text) == [i \in 1..Len(text) |-> json_load_object(text[i])]

\* seq[start:] of Python: a negative start counts from the end, out-of-range clamps
PySliceFrom(seq, start) ==
    LET n == Len(seq)
        i == IF start < 0 THEN (IF start + n < 0 THEN 0 ELSE start + n)
             ELSE (IF start > n THEN n ELSE start)
    IN  SubSeq(seq, i + 1, n)

(***************************************************************************)
(* MilvusClient                                                            *)
(***************************************************************************)
\* _load_local_data: [] unless the file exists and parses
_load_local_data(f) == IF f.state = "ok" THEN json_load(f.text) ELSE <<>>

\* outcome of open(..., 'w') + json.dump: written, open refused (file untouched),
\* or the dump broke off after the file was truncated (no longer valid JSON)
SaveOutcomes == {"ok", "open_failed", "dump_failed"}

\* _save_local_data: the whole list is rewritten; every exception is swallowed
_save_local_data(f, local_data, outcome) ==
    CASE outcome = "ok" -> [state |-> "ok", text |-> json_dump(local_data)]
      [] outcome = "open_failed" -> f
      [] OTHER -> [state |-> "corrupt", text |-> <<>>]

\* the fields __init__ leaves when it takes the local branch
LocalClient(f) ==
    [made |-> TRUE, use_milvus |-> FALSE, collection |-> FALSE,
     hasLocal |-> TRUE, local_data |-> _load_local_data(f)]

\* outcomes of _setup_collection on a connected client
SetupOutcomes == {"ok", "failed_unbound", "failed_bound"}

\* variant whose except branch leaves the client in remote mode (C6 rejects it)
_setup_collection_keep_remote(f, outcome) ==
    IF outcome = "ok"
    THEN [made |-> TRUE, use_milvus |-> TRUE, collection |-> TRUE,
          hasLocal |-> FALSE, local_data |-> <<>>]
    ELSE [made |-> TRUE, use_milvus |-> TRUE, collection |-> outcome = "failed_bound",
          hasLocal |-> FALSE, local_data |-> <<>>]

\* _setup_collection: binds the existing collection or creates it; any exception
\* switches the client to local storage (self.collection may already be bound)
_setup_collection(f, outcome) ==
    CASE outcome = "ok" ->
            [made |-> TRUE, use_milvus |-> TRUE, collection |-> TRUE,
             hasLocal |-> FALSE, local_data |-> <<>>]
      [] outcome = "failed_bound" -> [LocalClient(f) EXCEPT !.collection = TRUE]
      [] OTHER -> LocalClient(f)

\* outcome of a call into a dependency: it worked, it raised before it had any
\* effect, or it raised after its effect
Outcomes == {"ok", "fail_early", "fail_late"}

\* a remote call of client c cannot succeed: the server is down, the process
\* has disconnected, or the client holds no collection
Forced(c) == ~env.milvus \/ ~connected \/ ~client[c].collection

\* MilvusClient.__init__(use_milvus); conn, setup: how connections.connect and
\* _setup_collection went
MilvusClient_init(c, use_milvus, conn, setup) ==
    /\ ~client[c].made
    /\ conn \in {"ok", "fail_early"}
    /\ setup \in SetupOutcomes
    /\ ~env.milvus => conn = "fail_early"
    /\ (~use_milvus \/ conn # "ok") => setup = "ok"
    /\ ~use_milvus => conn = (IF env.milvus THEN "ok" ELSE "fail_early")
    /\ LET new == IF ~use_milvus \/ conn # "ok" THEN LocalClient(file)
                  ELSE _setup_collection(file, setup)
       IN  /\ client' = [client EXCEPT ![c] = new]
           /\ backend0' = [backend0 EXCEPT ![c] = new.use_milvus]
    /\ connected' = IF use_milvus /\ conn = "ok" THEN TRUE ELSE connected
    /\ remote' = IF use_milvus /\ conn = "ok" /\ setup # "failed_unbound"
                 THEN [remote EXCEPT !.exists = TRUE] ELSE remote
    /\ ret' = Returned("init", c)
    /\ UNCHANGED <<file, held>>

\* the dict insert_document appends in local mode
Doc(local_data, content, embedding, source, timestamp) ==
    [id |-> Len(local_data) + 1, content |-> content, embedding |-> embedding,
     source |-> source, timestamp |-> timestamp]

\* insert_document, remote branch: collection.insert + flush inside try/except
\* (fail_late: the flush raised, the row is in).  The collection's vector field
\* has dim=1024: the server refuses a vector of another width.
insert_remote(c, content, embedding, source, timestamp, out) ==
    /\ Forced(c) => out = "fail_early"
    /\ embedding.dim # EmbeddingDim => out = "fail_early"
    /\ remote' = IF out = "fail_early" THEN remote
                 ELSE [remote EXCEPT !.rows = Append(@,
                          [content |-> content, embedding |-> embedding,
                           source |-> source, timestamp |-> timestamp])]
    /\ ret' = Returned("insert", c)
    /\ UNCHANGED <<client, file, held>>

\* variant of the local branch whose save lets the exception out (C4 rejects it)
insert_local_unguarded(c, content, embedding, source, timestamp, out) ==
    IF ~client[c].hasLocal
    THEN /\ out = "ok"
         /\ ret' = Raised("insert", c)
         /\ UNCHANGED <<client, file, held, remote>>
    ELSE LET data == Append(client[c].local_data,
                            Doc(client[c].local_data, content, embedding, source,
                                timestamp))
             how == CASE out = "ok" -> "ok"
                      [] out = "fail_early" -> "open_failed"
                      [] OTHER -> "dump_failed"
         IN  /\ client' = [client EXCEPT ![c].local_data = data]
             /\ file' = _save_local_data(file, data, how)
             /\ held' = [local_data |-> data,
                         write_failed |-> held.write_failed \/ out # "ok"]
             /\ ret' = IF out = "ok" THEN Returned("insert", c) ELSE Raised("insert", c)
             /\ UNCHANGED remote

\* insert_document, local branch: append, then _save_local_data
\* (fail_early: open() raised, fail_late: json.dump raised)
insert_local(c, content, embedding, source, timestamp, out) ==
    IF ~client[c].hasLocal
    THEN /\ out = "ok"
         /\ ret' = Raised("insert", c)
         /\ UNCHANGED <<client, file, held, remote>>
    ELSE LET data == Append(client[c].local_data,
                            Doc(client[c].local_data, content, embedding, source,
                                timestamp))
             how == CASE out = "ok" -> "ok"
                      [] out = "fail_early" -> "open_failed"
                      [] OTHER -> "dump_failed"
         IN  /\ client' = [client EXCEPT ![c].local_data = data]
             /\ file' = _save_local_data(file, data, how)
             /\ held' = [local_data |-> data,
                         write_failed |-> held.write_failed \/ out # "ok"]
             /\ ret' = Returned("insert", c)
             /\ UNCHANGED remote

\* MilvusClient.insert_document(content, embedding, source, timestamp)
insert_document(c, content, embedding, source, timestamp, out) ==
    /\ client[c].made
    /\ IF client[c].use_milvus
       THEN insert_remote(c, content, embedding, source, timestamp, out)
       ELSE insert_local(c, content, embedding, source, timestamp, out)
    /\ UNCHANGED <<connected, backend0>>

\* _search_local_documents(limit): self.local_data[-limit:] if self.local_data else []
_search_local_documents(local_data, limit) ==
    IF local_data # <<>> THEN PySliceFrom(local_data, 0 - limit) ELSE <<>>

\* collection.search(...)[0]: up to limit rows of the collection (which rows, and
\* in which order, is the server's ranking)
RemoteHits(rows, limit) ==
    IF limit <= 0 THEN <<>>
    ELSE SubSeq(rows, 1, IF limit < Len(rows) THEN limit ELSE Len(rows))

\* `return self._search_local_documents(limit)` on client c: it reads
\* self.local_data, an attribute only the local branch of the constructor sets
search_fallback(c, limit) ==
    IF client[c].hasLocal
    THEN [Returned("search", c) EXCEPT
            !.hits = _search_local_documents(client[c].local_data, limit),
            !.limit = limit, !.served = "local"]
    ELSE [Raised("search", c) EXCEPT !.limit = limit]

\* MilvusClient.search_similar_documents(query_embedding, limit)
search_similar_documents(c, limit, out) ==
    /\ client[c].made
    /\ out \in {"ok", "fail_early"}
    /\ IF client[c].use_milvus
       THEN /\ Forced(c) => out = "fail_early"
            /\ ret' = IF out = "ok"
                      THEN [Returned("search", c) EXCEPT
                              !.hits = RemoteHits(remote.rows, limit),
                              !.limit = limit, !.served = "remote"]
                      ELSE search_fallback(c, limit)
       ELSE /\ out = "ok"
            /\ ret' = search_fallback(c, limit)
    /\ UNCHANGED <<file, remote, connected, client, held, backend0>>

\* MilvusClient.close(): disconnects the process-wide "default" alias
close(c) ==
    /\ client[c].made
    /\ connected' = IF client[c].use_milvus THEN FALSE ELSE connected
    /\ ret' = Returned("close", c)
    /\ UNCHANGED <<file, remote, client, held, backend0>>

(***************************************************************************)
(* KnowledgeAgent                                                          *)
(***************************************************************************)
NoKRet == [op |-> "none", ok |-> FALSE, hits |-> <<>>, limit |-> 0, total |-> 0,
           sources |-> {}]

\* add_knowledge(content, metadata): zero embedding, insert, True unless it raised
add_knowledge(content, source, timestamp, out) ==
    /\ insert_document("knowledge", content, ZeroEmbedding, source, timestamp, out)
    /\ kret' = [NoKRet EXCEPT !.op = "add", !.ok = ~ret'.raised]

\* the {content, source, timestamp} dict search_knowledge builds of one result
KnowledgeItem(doc) ==
    [content |-> doc.content, source |-> doc.source, timestamp |-> doc.timestamp]

\* search_knowledge(query, limit): delegates to the store; [] on any exception
search_knowledge(limit, out) ==
    /\ search_similar_documents("knowledge", limit, out)
    /\ kret' = [NoKRet EXCEPT
                  !.op = "search", !.ok = ~ret'.raised, !.limit = limit,
                  !.hits = IF ret'.raised THEN <<>>
                           ELSE [i \in 1..Len(ret'.hits) |-> KnowledgeItem(ret'.hits[i])]]

\* update_knowledge(knowledge_id, content, metadata): placeholder, returns False
update_knowledge(knowledge_id, content) ==
    /\ client["knowledge"].made
    /\ kret' = [NoKRet EXCEPT !.op = "update"]
    /\ ret' = NoRet
    /\ UNCHANGED <<file, remote, connected, client, held, backend0>>

\* variant that does delete: drops the document with that id, saves, returns True
\* (C10 rejects it)
delete_knowledge_removing(knowledge_id) ==
    /\ client["knowledge"].made
    /\ LET old == client["knowledge"].local_data
           data == SelectSeq(old, LAMBDA doc : doc.id # knowledge_id)
       IN  /\ client' = [client EXCEPT !["knowledge"].local_data = data]
           /\ file' = IF client["knowledge"].hasLocal
                      THEN _save_local_data(file, data, "ok") ELSE file
    /\ kret' = [NoKRet EXCEPT !.op = "delete", !.ok = TRUE]
    /\ ret' = NoRet
    /\ UNCHANGED <<remote, connected, held, backend0>>

\* delete_knowledge(knowledge_id): placeholder, returns False
delete_knowledge(knowledge_id) ==
    /\ client["knowledge"].made
    /\ kret' = [NoKRet EXCEPT !.op = "delete"]
    /\ ret' = NoRet
    /\ UNCHANGED <<file, remote, connected, client, held, backend0>>

\* variant that counts only what a remote collection reports (C2 rejects it)
get_knowledge_stats_remote_only(k) ==
    IF k.use_milvus /\ k.hasLocal
    THEN [total_knowledge |-> Len(k.local_data),
          sources |-> {k.local_data[i].source : i \in DOMAIN k.local_data}]
    ELSE [total_knowledge |-> 0, sources |-> {}]

\* variant that counts the distinct sources instead of the chunks (C22 rejects it)
get_knowledge_stats_per_source(k) ==
    IF k.hasLocal
    THEN [total_knowledge |-> Cardinality({k.local_data[i].source : i \in DOMAIN k.local_data}),
          sources |-> {k.local_data[i].source : i \in DOMAIN k.local_data}]
    ELSE [total_knowledge |-> 0, sources |-> {}]

\* get_knowledge_stats(): counts the client's in-memory list when it has one
get_knowledge_stats(k) ==
    IF k.hasLocal
    THEN [total_knowledge |-> Len(k.local_data),
          sources |-> {k.local_data[i].source : i \in DOMAIN k.local_data}]
    ELSE [total_knowledge |-> 0, sources |-> {}]

(***************************************************************************)
(* PostgresClient                                                          *)
(***************************************************************************)
\* the agents that own a PostgresClient
PgOwners == {"writer", "knowledge"}

\* PostgresClient.__init__ / _connect: the connection, or None when it failed
PostgresClient_init(p, a, ok) ==
    [p EXCEPT !.made[a] = TRUE, !.conn[a] = ok, !.closed[a] = FALSE]

\* a statement of client a cannot succeed: the connection object was closed
PgForced(p, a) == p.conn[a] /\ p.closed[a]

\* variant that connects on demand when the constructor could not (C11 rejects it)
save_report_reconnecting(p, a, topic, content, ok) ==
    IF ok
    THEN [pg |-> [p EXCEPT !.conn[a] = TRUE, !.serial = @ + 1,
                           !.rows = Append(@, [id |-> p.serial + 1, topic |-> topic,
                                               content |-> content])],
          id |-> p.serial + 1]
    ELSE [pg |-> p, id |-> SentinelId]

\* save_report(topic, content): the new row's id, or 1 when nothing was stored
save_report(p, a, topic, content, ok) ==
    IF ~p.conn[a] THEN [pg |-> p, id |-> SentinelId]
    ELSE IF ok
         THEN [pg |-> [p EXCEPT !.serial = @ + 1,
                                !.rows = Append(@, [id |-> p.serial + 1, topic |-> topic,
                                                    content |-> content])],
               id |-> p.serial + 1]
         ELSE [pg |-> p, id |-> SentinelId]

\* no row: the None of get_report
NoRow == [id |-> 0, topic |-> "", content |-> Text("none", "", 0, 0)]

\* get_report(report_id): the row with that id, or None (not connected, not
\* found, or the query raised)
get_report(p, a, report_id, ok) ==
    IF ~p.conn[a] \/ ~ok THEN [found |-> FALSE, row |-> NoRow]
    ELSE LET hit == SelectSeq(p.rows, LAMBDA r : r.id = report_id)
         IN  IF hit = <<>> THEN [found |-> FALSE, row |-> NoRow]
             ELSE [found |-> TRUE, row |-> hit[1]]

\* get_all_reports(): ORDER BY created_at DESC, or [] (not connected, or the
\* query raised)
get_all_reports(p, a, ok) ==
    IF ~p.conn[a] \/ ~ok THEN <<>>
    ELSE [i \in 1..Len(p.rows) |-> p.rows[Len(p.rows) - i + 1]]

\* PostgresClient.close(): closes the connection; self.connection stays set
PostgresClient_close(p, a) ==
    IF p.conn[a] THEN [p EXCEPT !.closed[a] = TRUE] ELSE p

\* what a PostgresClient call returned, with the arguments of a save_report
NoPRet == [op |-> "none", owner |-> "none", id |-> 0, topic |-> "",
           content |-> Text("none", "", 0, 0), found |-> FALSE, row |-> NoRow,
           rows |-> <<>>]

(***************************************************************************)
(* Texts: what the review reads of them.                                   *)
(***************************************************************************)
\* topics a caller asks about: a short one, and one long enough for two chunks
Topics == {"AI", "Long"}

\* a topic of two lines, "AI\n芯片", as a multi-line input field sends it
TwoLineTopic == "AI/Chips"

\* len(topic)
TopicLen(topic) ==
    CASE topic = "AI" -> 2 [] topic = "Long" -> 300 [] topic = TwoLineTopic -> 5
      [] OTHER -> 0

\* "\n" in topic
TopicMultiline(topic) == topic = TwoLineTopic

\* len(f"{topic} (第{i+1}轮)") - len(topic)
RoundSuffixLen == 6
\* len of the generic research content without its 4 copies of the topic
SampleFixedLen == 124
\* leading and trailing whitespace the splitter strips of the content
SampleStripLen == 18
\* chunk_size of the text splitter
ChunkSize == 1000
\* len of the templated report without its 4 copies of the topic and its previews
TemplateFixedLen == 247
\* len of the placeholder document without the topic
DefaultFixedLen == 38
\* content[:100]
PreviewLen == 100
\* len("- ") + len("...")
BulletExtraLen == 5
\* offset of the end of the boilerplate phrase in a chunk, without the topic
BoilerEndOffset == 23
\* offset of the end of the second placeholder pattern in a chunk, without 2 topics
Placeholder2EndOffset == 54
\* len of the sample answers of the generation model and of foreign documents
LlmSampleLen == 400
\* offset of the end of the title line in a templated report, without the topic
TitleEndOffset == 7

Min(a, b) == IF a < b THEN a ELSE b

\* len(_generate_sample_content(f"{topic} (第{round}轮)"))
SampleLen(topic) == SampleFixedLen + 4 * (TopicLen(topic) + RoundSuffixLen)

\* an arbitrary content string, by what the review reads of it: its length,
\* whether the title pattern matches, which section labels it contains, whether
\* it contains the evidence marker, how often the boilerplate phrase, and how
\* many of the placeholder patterns match
FreeText(len, title, sections, marker, boiler, placeholders) ==
    [kind |-> "free", len |-> len, title |-> title, sections |-> sections,
     marker |-> marker, boiler |-> boiler, placeholders |-> placeholders]

\* len(x)
Length(x) ==
    CASE x.kind = "free" -> x.len
      [] x.kind = "sample" -> SampleLen(x.topic)
      [] x.kind = "chunk" ->
            IF SampleLen(x.topic) <= ChunkSize THEN SampleLen(x.topic) - SampleStripLen
            ELSE 2 * (TopicLen(x.topic) + RoundSuffixLen)
      [] x.kind = "default" -> DefaultFixedLen + TopicLen(x.topic)
      [] x.kind = "template" -> TemplateFixedLen + 4 * TopicLen(x.topic) + x.blen
      [] x.kind = "llm" -> x.part * LlmSampleLen
      [] OTHER -> LlmSampleLen

\* x[:100].count("这是一个关于"): the second line of a one-chunk research content
PreviewBoiler(x) ==
    IF /\ x.kind = "chunk" /\ x.part = 1
       /\ TopicLen(x.topic) + RoundSuffixLen + BoilerEndOffset <= PreviewLen
    THEN 1 ELSE 0

\* whether x[:100] holds "该领域包含多个方面和应用场景": the third line of a short
\* research content, or the first line of the second chunk of a long one
PreviewPlaceholder(x) ==
    /\ x.kind = "chunk"
    /\ \/ x.part = 2
       \/ x.part = 1 /\ 2 * (TopicLen(x.topic) + RoundSuffixLen) + Placeholder2EndOffset
                          <= PreviewLen

RECURSIVE SumOver(_, _)
SumOver(seq, i) == IF i > Len(seq) THEN 0 ELSE seq[i] + SumOver(seq, i + 1)

\* chr(10).join([f"- {content[:100]}..." for content in doc_contents])
PreviewBlockLen(doc_contents) ==
    SumOver([i \in 1..Len(doc_contents) |->
                Min(Length(doc_contents[i]), PreviewLen) + BulletExtraLen], 1)
    + (IF Len(doc_contents) > 0 THEN Len(doc_contents) - 1 ELSE 0)

\* whether re.search(r"# .*研究报告", x[:100]) matches: the title line of a
\* templated report, when it is one line and ends within the preview
PreviewTitle(x) ==
    /\ x.kind = "template"
    /\ ~TopicMultiline(x.topic)
    /\ TopicLen(x.topic) + TitleEndOffset <= PreviewLen

\* the templated report _generate_report_from_docs returns without a model
TemplateReport(topic, doc_contents) ==
    TextR("template", topic, 0, Len(doc_contents),
          SumOver([i \in 1..Len(doc_contents) |-> PreviewBoiler(doc_contents[i])], 1),
          PreviewBlockLen(doc_contents),
          \E i \in 1..Len(doc_contents) : PreviewPlaceholder(doc_contents[i]),
          \E i \in 1..Len(doc_contents) : PreviewTitle(doc_contents[i]))

\* re.search(r"# .*研究报告", x): `.` matches no line break, so in a templated
\* report the pattern needs "# " and "研究报告" on one line -- its own title line
\* when the topic is one line, or a title line inside a preview
HasTitle(x) ==
    CASE x.kind = "free" -> x.title
      [] x.kind = "template" -> ~TopicMultiline(x.topic) \/ x.pt
      [] OTHER -> x.kind = "llm" /\ x.part = 1

\* section in x, for "引言", "主要内容", "结论"
Sections == <<"intro", "body", "conclusion">>

HasSection(x, section) ==
    IF x.kind = "free" THEN section \in x.sections
    ELSE x.kind = "template" \/ (x.kind = "llm" /\ x.part = 1)

\* "相关文档提到了以下要点" in x
HasMarker(x) == IF x.kind = "free" THEN x.marker ELSE x.kind = "template"

\* x.count("这是一个关于")
BoilerCount(x) ==
    CASE x.kind = "free" -> x.boiler
      [] x.kind = "template" -> x.rep
      [] x.kind \in {"sample", "chunk"} -> 1
      [] OTHER -> 0

\* how many of the three placeholder_patterns re.search finds in x
PlaceholderCount(x) ==
    CASE x.kind = "free" -> x.placeholders
      [] x.kind = "template" -> IF x.ph THEN 1 ELSE 0
      [] x.kind = "sample" -> 2
      [] OTHER -> 0

(***************************************************************************)
(* ReviewAgent                                                             *)
(***************************************************************************)
\* _check_structure(content): the issues, title first, then the sections in order
_check_structure(content) ==
    (IF HasTitle(content) THEN <<>> ELSE <<"missing title">>)
    \o SelectSeq([i \in 1..Len(Sections) |->
                    IF HasSection(content, Sections[i]) THEN "" ELSE Sections[i]],
                 LAMBDA m : m # "")

\* _assess_content_quality(content)
_assess_content_quality(content) ==
    LET n == Length(content)
        lengthOk == ~(n < 200) /\ ~(n > 2000)
        repeated == BoilerCount(content) > 1
    IN  [score |-> (IF lengthOk THEN 20 ELSE 0)
                   + (IF HasMarker(content) THEN 10 ELSE 0)
                   + (IF repeated THEN 0 ELSE 10),
         issues |-> (IF n < 200 THEN <<"too short">>
                     ELSE IF n > 2000 THEN <<"too long">> ELSE <<>>)
                    \o (IF repeated THEN <<"repetitive">> ELSE <<>>),
         suggestions |-> IF HasMarker(content) THEN <<>> ELSE <<"cite sources">>]

\* variant that objects to any placeholder pattern (C17 rejects it)
_check_language_any(content) ==
    IF PlaceholderCount(content) > 0 THEN <<"templated">> ELSE <<>>

\* _check_language(content)
_check_language(content) ==
    IF PlaceholderCount(content) > 2 THEN <<"templated">> ELSE <<>>

\* variant with strict comparisons (C18 rejects it)
overall_assessment_strict(quality_score) ==
    IF quality_score > 80 THEN "Excellent"
    ELSE IF quality_score > 60 THEN "Good"
    ELSE IF quality_score > 40 THEN "Fair"
    ELSE "Poor"

\* the step function at the end of review_report
overall_assessment(quality_score) ==
    IF quality_score >= 80 THEN "Excellent"
    ELSE IF quality_score >= 60 THEN "Good"
    ELSE IF quality_score >= 40 THEN "Fair"
    ELSE "Poor"

\* review_report(report_content, topic)
review_report(content) ==
    LET structure_issues == _check_structure(content)
        content_quality == _assess_content_quality(content)
        language_issues == _check_language(content)
        quality_score == (IF structure_issues # <<>> THEN 0 ELSE 20)
                         + content_quality.score
                         + (IF language_issues # <<>> THEN 0 ELSE 20)
    IN  [quality_score |-> quality_score,
         feedback |-> structure_issues \o content_quality.issues \o language_issues,
         suggestions |-> content_quality.suggestions,
         overall_assessment |-> overall_assessment(quality_score)]

(***************************************************************************)
(* ResearchAgent                                                           *)
(***************************************************************************)
\* a vector the embedding provider returned
ProviderEmbedding == [dim |-> EmbeddingDim, zero |-> FALSE]

\* text_splitter.split_text(_generate_sample_content(f"{topic} (第{round}轮)")):
\* one chunk when the content fits chunk_size, two for the long topic
split_text(topic, round) ==
    IF SampleLen(topic) <= ChunkSize
    THEN <<Text("chunk", topic, round, 1)>>
    ELSE <<Text("chunk", topic, round, 1), Text("chunk", topic, round, 2)>>

\* variant that stores an empty vector when it has none (C13 rejects it)
chunk_embedding_empty(use_embeddings, embed_ok) ==
    IF use_embeddings /\ embed_ok THEN ProviderEmbedding ELSE [dim |-> 0, zero |-> TRUE]

\* the embedding process_research_topic stores with a chunk: the provider's
\* vector, or the zero vector when there is no model or embed_query raised
chunk_embedding(use_embeddings, embed_ok) ==
    IF use_embeddings /\ embed_ok THEN ProviderEmbedding ELSE ZeroEmbedding

(***************************************************************************)
(* WriterAgent                                                             *)
(***************************************************************************)
\* the placeholder document of write_report's except branch
DefaultContent(topic) == Text("default", topic, 0, 0)

\* the sample answers of the generation model: an empty one and a structured one
LlmAnswers == {0, 1}

\* variant without the try/except around retrieval (C3 rejects it)
write_report_no_except(topic, raised, doc_contents) ==
    [raised |-> raised, docs |-> doc_contents]

\* variant whose except branch continues with no document at all (C14 rejects it)
write_report_except_empty(topic, raised, doc_contents) ==
    IF raised THEN [raised |-> FALSE, docs |-> <<>>]
    ELSE [raised |-> FALSE, docs |-> doc_contents]

\* the except branch around retrieval in write_report: whatever was raised
\* (no embedding model, embed_query, the search), one placeholder document
write_report_except(topic, raised, doc_contents) ==
    IF raised THEN [raised |-> FALSE, docs |-> <<DefaultContent(topic)>>]
    ELSE [raised |-> FALSE, docs |-> doc_contents]

\* _generate_report_from_docs(topic, doc_contents): the model's answer, or the
\* templated report when there is no model or invoke raised (answer = -1)
_generate_report_from_docs(topic, doc_contents, use_llm, answer) ==
    IF use_llm /\ answer >= 0 THEN Text("llm", topic, 0, answer)
    ELSE TemplateReport(topic, doc_contents)

(***************************************************************************)
(* Failure injection: a call into a reachable service fails at most        *)
(* MaxFaults times in a behaviour; a call into an unreachable one always.  *)
(***************************************************************************)
Fault(n) == faults + n <= MaxFaults /\ faults' = faults + n

Cost(forced, failed) == IF failed /\ ~forced THEN 1 ELSE 0

InitCost(use_milvus, conn, setup) ==
    IF use_milvus
    THEN Cost(~env.milvus, conn # "ok") + Cost(FALSE, setup # "ok")
    ELSE 0

CallCost(c, out) == Cost(client[c].use_milvus /\ Forced(c), out # "ok")

(***************************************************************************)
(* OrchestratorAgent: construction and execute_research_task               *)
(***************************************************************************)
Depths == {"basic", "intermediate", "deep", "other"}

\* variant: every depth other than basic gets two rounds
Iterations_two_rounds(depth) ==
    IF depth = "basic" THEN 1 ELSE 2

\* the if/elif/else over depth at the top of execute_research_task
Iterations(depth) ==
    IF depth = "deep" THEN 3 ELSE IF depth = "intermediate" THEN 2 ELSE 1

\* no process_research_topic has returned
NoResearchResult == [present |-> FALSE, count |-> 0]

NoReview == [quality_score |-> 0, feedback |-> <<>>, suggestions |-> <<>>,
             overall_assessment |-> ""]

NoStats == [total_knowledge |-> 0, sources |-> {}]

\* final_result = None; has_review / has_stats tell whether the key is in the dict
NoReport ==
    [present |-> FALSE, report_id |-> 0, topic |-> "", content |-> Text("none", "", 0, 0),
     has_review |-> FALSE, review |-> NoReview,
     has_stats |-> FALSE, knowledge_stats |-> NoStats]

\* ResearchAgent.__init__: the embedding model (when a key is configured and its
\* construction succeeds), then the store client
ResearchAgent_init ==
    /\ pc = "new_research"
    /\ \E emb \in BOOLEAN, conn \in Outcomes, setup \in SetupOutcomes :
        /\ cfg.key \/ ~emb
        /\ Fault(Cost(~cfg.key, ~emb) + InitCost(cfg.USE_MILVUS, conn, setup))
        /\ agent' = [agent EXCEPT !.research_emb = emb]
        /\ MilvusClient_init("research", cfg.USE_MILVUS, conn, setup)
    /\ pc' = "new_writer"
    /\ UNCHANGED <<kret, env, cfg, pg, task, run, report, final_result, clock, inserted,
                   pret, writer_docs, research_result, embedded, stages, appVars>>

\* WriterAgent.__init__: generation model, embedding model, store client, PostgresClient
WriterAgent_init ==
    /\ pc = "new_writer"
    /\ \E llm \in BOOLEAN, emb \in BOOLEAN, pgc \in BOOLEAN,
          conn \in Outcomes, setup \in SetupOutcomes :
        /\ cfg.key \/ (~llm /\ ~emb)
        /\ env.pg \/ ~pgc
        /\ Fault(Cost(~cfg.key, ~llm) + Cost(~cfg.key, ~emb) + Cost(~env.pg, ~pgc)
                 + InitCost(cfg.USE_MILVUS, conn, setup))
        /\ agent' = [agent EXCEPT !.writer_llm = llm, !.writer_emb = emb]
        /\ pg' = PostgresClient_init(pg, "writer", pgc)
        /\ MilvusClient_init("writer", cfg.USE_MILVUS, conn, setup)
    /\ pc' = "new_knowledge"
    /\ UNCHANGED <<kret, env, cfg, task, run, report, final_result, clock, inserted,
                   pret, writer_docs, research_result, embedded, stages, appVars>>

\* KnowledgeAgent.__init__(use_milvus=True): store client, PostgresClient
KnowledgeAgent_init ==
    /\ pc = "new_knowledge"
    /\ \E pgc \in BOOLEAN, conn \in Outcomes, setup \in SetupOutcomes :
        /\ env.pg \/ ~pgc
        /\ Fault(Cost(~env.pg, ~pgc) + InitCost(TRUE, conn, setup))
        /\ pg' = PostgresClient_init(pg, "knowledge", pgc)
        /\ MilvusClient_init("knowledge", TRUE, conn, setup)
    /\ pc' = "ready"
    /\ UNCHANGED <<kret, env, cfg, agent, task, run, report, final_result, clock, inserted,
                   pret, writer_docs, research_result, embedded, stages, appVars>>

\* execute_research_task(topic, depth), up to the first round of its loop
execute_research_task ==
    /\ pc = "ready"
    /\ pc' = "research"
    /\ run' = [i |-> 1, k |-> 1]
    /\ final_result' = NoReport
    /\ UNCHANGED <<storeVars, kret, faults, env, cfg, agent, pg, task, report, clock,
                   inserted, pret, writer_docs, research_result, embedded, stages, appVars>>

\* process_research_topic(f"{topic} (第{i}轮)"): one pass of its loop over the chunks
process_research_topic ==
    /\ pc = "research"
    /\ LET texts == split_text(task.topic, run.i)
           text == texts[run.k]
       IN  /\ \E embed_ok \in BOOLEAN, out \in Outcomes :
                /\ agent.research_emb \/ ~embed_ok
                /\ Fault(Cost(~agent.research_emb, ~embed_ok) + CallCost("research", out))
                /\ insert_document("research", text,
                                   chunk_embedding(agent.research_emb, embed_ok),
                                   Source("Research on", task.topic, run.i), clock, out)
                /\ embedded' = Append(embedded,
                                      [no_vector |-> ~embed_ok,
                                       embedding |-> chunk_embedding(agent.research_emb,
                                                                     embed_ok)])
           /\ clock' = clock + 1
           /\ inserted' = Append(inserted, text)
           /\ stages' = IF run.k = 1 THEN Append(stages, "research") ELSE stages
           /\ research_result' = IF ~ret'.raised /\ run.k = Len(texts)
                                 THEN [present |-> TRUE, count |-> Len(texts)]
                                 ELSE NoResearchResult
           /\ IF ret'.raised THEN pc' = "raised" /\ run' = run
              ELSE IF run.k < Len(texts) THEN pc' = pc /\ run' = [run EXCEPT !.k = @ + 1]
              ELSE pc' = "write" /\ run' = [run EXCEPT !.k = 1]
    /\ UNCHANGED <<kret, env, cfg, agent, pg, task, report, final_result, pret,
                   writer_docs, appVars>>

\* write_report(topic)
write_report ==
    /\ pc = "write"
    /\ \E embed_ok \in BOOLEAN, out \in Outcomes, answer \in {-1} \cup LlmAnswers,
          save_ok \in BOOLEAN :
        /\ agent.writer_emb \/ ~embed_ok
        /\ agent.writer_llm \/ answer = -1
        /\ (pg.conn["writer"] /\ env.pg) \/ ~save_ok
        /\ IF agent.writer_emb /\ embed_ok
           THEN /\ search_similar_documents("writer", WriterLimit, out)
                /\ Fault(CallCost("writer", out)
                         + Cost(~agent.writer_llm, answer = -1)
                         + Cost(~pg.conn["writer"] \/ ~env.pg, ~save_ok))
           ELSE /\ out = "ok"
                /\ Fault(Cost(~agent.writer_emb, ~embed_ok)
                         + Cost(~agent.writer_llm, answer = -1)
                         + Cost(~pg.conn["writer"] \/ ~env.pg, ~save_ok))
                /\ UNCHANGED storeVars
        /\ LET searched == agent.writer_emb /\ embed_ok
               found == IF searched /\ ~ret'.raised
                        THEN [j \in 1..Len(ret'.hits) |-> ret'.hits[j].content]
                        ELSE <<>>
               r == write_report_except(task.topic, ~searched \/ ret'.raised, found)
               content == _generate_report_from_docs(task.topic, r.docs,
                                                     agent.writer_llm, answer)
               saved == save_report(pg, "writer", task.topic, content, save_ok)
           IN  IF r.raised
               THEN pc' = "raised" /\ UNCHANGED <<pg, report, pret, writer_docs>>
               ELSE /\ writer_docs' = r.docs
                    /\ pg' = saved.pg
                    /\ pret' = [NoPRet EXCEPT !.op = "save", !.owner = "writer",
                                              !.id = saved.id, !.topic = task.topic,
                                              !.content = content]
                    /\ report' = [NoReport EXCEPT !.present = TRUE,
                                     !.report_id = saved.id, !.topic = task.topic,
                                     !.content = content]
                    /\ pc' = "review"
    /\ stages' = Append(stages, "write")
    /\ UNCHANGED <<kret, env, cfg, agent, task, run, final_result, clock, inserted,
                   research_result, embedded, appVars>>

\* variant that keeps the first round's report as the result (C21 rejects it)
review_step_keep_first ==
    /\ pc = "review"
    /\ report' = [report EXCEPT !.has_review = TRUE,
                                !.review = review_report(report.content)]
    /\ final_result' = IF final_result.present THEN final_result ELSE report'
    /\ IF run.i < Iterations(task.depth)
       THEN pc' = "research" /\ run' = [i |-> run.i + 1, k |-> 1]
       ELSE pc' = "knowledge" /\ run' = run
    /\ stages' = Append(stages, "review")
    /\ UNCHANGED <<storeVars, kret, faults, env, cfg, agent, pg, task, clock, inserted,
                   pret, writer_docs, research_result, embedded, appVars>>

\* review_report(report["content"], topic); report["review"] = ...; final_result = report
review_step ==
    /\ pc = "review"
    /\ report' = [report EXCEPT !.has_review = TRUE,
                                !.review = review_report(report.content)]
    /\ final_result' = report'
    /\ IF run.i < Iterations(task.depth)
       THEN pc' = "research" /\ run' = [i |-> run.i + 1, k |-> 1]
       ELSE pc' = "knowledge" /\ run' = run
    /\ stages' = Append(stages, "review")
    /\ UNCHANGED <<storeVars, kret, faults, env, cfg, agent, pg, task, clock, inserted,
                   pret, writer_docs, research_result, embedded, appVars>>

\* if final_result: knowledge_agent.add_knowledge(final_result["content"], metadata)
knowledge_step ==
    /\ pc = "knowledge"
    /\ IF final_result.present
       THEN /\ \E out \in Outcomes :
                /\ Fault(CallCost("knowledge", out))
                /\ add_knowledge(final_result.content,
                                 Source("Research on", task.topic, 0), clock, out)
            /\ clock' = clock + 1
            /\ inserted' = Append(inserted, final_result.content)
            /\ stages' = Append(stages, "knowledge")
            /\ pc' = "stats"
       ELSE pc' = "done" /\ UNCHANGED <<storeVars, kret, faults, clock, inserted, stages>>
    /\ UNCHANGED <<env, cfg, agent, pg, task, run, report, final_result, pret,
                   writer_docs, research_result, embedded, appVars>>

\* stats = get_knowledge_stats(); final_result["knowledge_stats"] = stats; return
stats_step ==
    /\ pc = "stats"
    /\ LET stats == get_knowledge_stats(client["knowledge"])
       IN  /\ final_result' = [final_result EXCEPT !.has_stats = TRUE,
                                                   !.knowledge_stats = stats]
           /\ kret' = [NoKRet EXCEPT !.op = "stats", !.ok = TRUE,
                                     !.total = stats.total_knowledge,
                                     !.sources = stats.sources]
    /\ pc' = "done"
    /\ UNCHANGED <<storeVars, faults, env, cfg, agent, pg, task, run, report, clock,
                   inserted, pret, writer_docs, research_result, embedded, stages, appVars>>

\* milvus_data.json as a process may find it: missing, or left by an earlier run
InitialFiles ==
    {[state |-> "absent", text |-> <<>>],
     [state |-> "ok",
      text |-> json_dump(<<Doc(<<>>, Text("chunk", "AI", 0, 1), ZeroEmbedding,
                               Source("Research on", "AI", 0), 0)>>)]}

(***************************************************************************)
(* app.py: the values of its two module-level dicts, its threads, and the   *)
(* requests it answers.                                                    *)
(***************************************************************************)
\* str(uuid.uuid4()): the report ids a process hands out, in the order it does
ReportIds == 1..MaxRequests

\* conversation ids a client sends
ConvIds == {1}

\* `report_id in reports` is false
NoEntry == [status |-> "absent", data |-> NoReport, error |-> FALSE]

\* no ReportGenerator was created for the id
NoThread == [pc |-> "none", topic |-> "", mode |-> "", result |-> NoReport]

NoConversation == [exists |-> FALSE, messages |-> <<>>]

NoRequest == [route |-> "none", input |-> "", id |-> 0]

NoResponse == [code |-> 0, body |-> "none", id |-> 0, entry |-> NoEntry,
               results |-> <<>>]

InitAppVars ==
    /\ reports = [id \in ReportIds |-> NoEntry]
    /\ conversations = [c \in ConvIds |-> NoConversation]
    /\ threads = [id \in ReportIds |-> NoThread]
    /\ request = NoRequest
    /\ response = NoResponse

InitStoreVars ==
    /\ remote = [exists |-> FALSE, rows |-> <<>>]
    /\ connected = FALSE
    /\ client = [c \in Clients |-> NoClient]
    /\ ret = NoRet
    /\ kret = NoKRet
    /\ faults = 0
    /\ backend0 = [c \in Clients |-> FALSE]

NoAgent == [research_emb |-> FALSE, writer_emb |-> FALSE, writer_llm |-> FALSE]

NoPg == [made |-> [a \in PgOwners |-> FALSE], conn |-> [a \in PgOwners |-> FALSE],
         closed |-> [a \in PgOwners |-> FALSE], serial |-> 0, rows |-> <<>>]

Init ==
    /\ InitStoreVars
    /\ file \in InitialFiles
    /\ held = [local_data |-> _load_local_data(file), write_failed |-> FALSE]
    /\ env \in [milvus : BOOLEAN, pg : BOOLEAN]
    /\ cfg \in [USE_MILVUS : BOOLEAN, key : BOOLEAN]
    /\ agent = NoAgent
    /\ pg = NoPg
    /\ task \in [topic : Topics, depth : Depths]
    /\ pc = "new_research"
    /\ run = [i |-> 0, k |-> 0]
    /\ report = NoReport
    /\ final_result = NoReport
    /\ clock = 1
    /\ inserted = <<>>
    /\ pret = NoPRet
    /\ writer_docs = <<>>
    /\ research_result = NoResearchResult
    /\ embedded = <<>>
    /\ stages = <<>>
    /\ InitAppVars

Next ==
    \/ ResearchAgent_init
    \/ WriterAgent_init
    \/ KnowledgeAgent_init
    \/ execute_research_task
    \/ process_research_topic
    \/ write_report
    \/ review_step
    \/ knowledge_step
    \/ stats_step

Spec == Init /\ [][Next]_vars

\* execute_research_task is one sequential call: the interpreter runs each of its
\* steps to completion, so a step that can be taken is eventually taken
FairSpec == Spec /\ WF_vars(Next)

(***************************************************************************)
(* Free use of one KnowledgeAgent and its store client, with restarts of   *)
(* the process.                                                            *)
(***************************************************************************)
\* the (content, embedding, source, timestamp) arguments the free API inserts
SampleDocs ==
    {<<Text("chunk", "AI", 1, 1), ZeroEmbedding, Source("Research on", "AI", 1), 1>>,
     <<Text("report", "AI", 0, 1), ProviderEmbedding, Source("unknown", "", 0), 2>>}

\* the client the free API drives
K == "knowledge"

Limits == 0..MaxLimit

InitStore ==
    /\ InitStoreVars
    /\ file = [state |-> "absent", text |-> <<>>]
    /\ held = [local_data |-> <<>>, write_failed |-> FALSE]
    /\ env \in [milvus : BOOLEAN, pg : {FALSE}]
    /\ cfg = [USE_MILVUS |-> FALSE, key |-> FALSE]
    /\ agent = NoAgent
    /\ pg = NoPg
    /\ task = [topic |-> "AI", depth |-> "basic"]
    /\ pc = "api"
    /\ run = [i |-> 0, k |-> 0]
    /\ report = NoReport
    /\ final_result = NoReport
    /\ clock = 1
    /\ inserted = <<>>
    /\ pret = NoPRet
    /\ writer_docs = <<>>
    /\ research_result = NoResearchResult
    /\ embedded = <<>>
    /\ stages = <<>>
    /\ InitAppVars

Construct ==
    /\ \E use_milvus \in BOOLEAN, conn \in Outcomes, setup \in SetupOutcomes :
        /\ MilvusClient_init(K, use_milvus, conn, setup)
        /\ Fault(InitCost(use_milvus, conn, setup))
    /\ kret' = NoKRet
    /\ UNCHANGED pipeVars

Insert ==
    /\ \E d \in SampleDocs, out \in Outcomes :
        /\ Len(client[K].local_data) < MaxDocs
        /\ client[K].use_milvus => Len(remote.rows) < MaxRemote
        /\ insert_document(K, d[1], d[2], d[3], d[4], out)
        /\ Fault(CallCost(K, out))
    /\ kret' = NoKRet
    /\ UNCHANGED pipeVars

Search ==
    /\ \E limit \in Limits, out \in Outcomes :
        /\ search_similar_documents(K, limit, out)
        /\ Fault(CallCost(K, out))
    /\ kret' = NoKRet
    /\ UNCHANGED pipeVars

Close ==
    /\ close(K)
    /\ kret' = NoKRet
    /\ UNCHANGED <<faults, pipeVars>>

\* add_knowledge always stores the zero vector: it is offered the sample
\* documents that carry one
AddKnowledge ==
    /\ \E d \in SampleDocs, out \in Outcomes :
        /\ d[2] = ZeroEmbedding
        /\ Len(client[K].local_data) < MaxDocs
        /\ client[K].use_milvus => Len(remote.rows) < MaxRemote
        /\ add_knowledge(d[1], d[3], d[4], out)
        /\ Fault(CallCost(K, out))
    /\ UNCHANGED pipeVars

SearchKnowledge ==
    /\ \E limit \in Limits, out \in Outcomes :
        /\ search_knowledge(limit, out)
        /\ Fault(CallCost(K, out))
    /\ UNCHANGED pipeVars

UpdateKnowledge ==
    /\ \E knowledge_id \in {1, MaxDocs}, d \in SampleDocs : update_knowledge(knowledge_id, d[1])
    /\ UNCHANGED <<faults, pipeVars>>

DeleteKnowledge ==
    /\ \E knowledge_id \in {1, MaxDocs} : delete_knowledge(knowledge_id)
    /\ UNCHANGED <<faults, pipeVars>>

\* the process ends and a new one starts: the objects are gone, the file and
\* the server stay
Restart ==
    /\ client[K].made
    /\ client' = [c \in Clients |-> NoClient]
    /\ backend0' = [c \in Clients |-> FALSE]
    /\ connected' = FALSE
    /\ ret' = NoRet
    /\ kret' = NoKRet
    /\ UNCHANGED <<file, remote, faults, held>>
    /\ UNCHANGED pipeVars

StoreNext ==
    \/ Construct
    \/ Insert
    \/ Search
    \/ Close
    \/ AddKnowledge
    \/ SearchKnowledge
    \/ UpdateKnowledge
    \/ DeleteKnowledge
    \/ Restart

StoreSpec == InitStore /\ [][StoreNext]_vars

(***************************************************************************)
(* insert_document with whatever vector the caller got from its embedding  *)
(* provider.                                                               *)
(***************************************************************************)
\* the width of a vector of another embedding model
OtherDim == 768

\* a vector the embedding provider returned, of a width that is not the
\* collection's
OtherWidthEmbedding == [dim |-> OtherDim, zero |-> FALSE]

\* arguments of insert_document: chunks with the placeholder vector, with the
\* provider's vector of 1024 floats, and with a vector of another width
WidthDocs ==
    {<<Text("chunk", "AI", 1, 1), ZeroEmbedding, Source("Research on", "AI", 1), 1>>,
     <<Text("chunk", "AI", 2, 1), ProviderEmbedding, Source("Research on", "AI", 2), 2>>,
     <<Text("chunk", "AI", 3, 1), OtherWidthEmbedding, Source("Research on", "AI", 3), 3>>}

\* insert_document(content, embedding, source, timestamp) on the client
InsertAnyWidth ==
    /\ \E d \in WidthDocs, out \in Outcomes :
        /\ Len(client[K].local_data) < MaxDocs
        /\ client[K].use_milvus => Len(remote.rows) < MaxRemote
        /\ insert_document(K, d[1], d[2], d[3], d[4], out)
        /\ Fault(Cost(client[K].use_milvus /\ (Forced(K) \/ d[2].dim # EmbeddingDim),
                      out # "ok"))
    /\ kret' = NoKRet
    /\ UNCHANGED pipeVars

WidthNext ==
    \/ Construct
    \/ InsertAnyWidth
    \/ Restart

WidthSpec == InitStore /\ [][WidthNext]_vars

(***************************************************************************)
(* Free use of the two PostgresClient objects over one database, with      *)
(* restarts of the process.                                                *)
(***************************************************************************)
\* (topic, content) pairs a caller saves
SampleReports ==
    {<<"AI", Text("report", "AI", 0, 1)>>, <<"Long", Text("report", "Long", 0, 1)>>}

InitPg ==
    /\ InitStoreVars
    /\ file = [state |-> "absent", text |-> <<>>]
    /\ held = [local_data |-> <<>>, write_failed |-> FALSE]
    /\ env \in [milvus : {FALSE}, pg : BOOLEAN]
    /\ cfg = [USE_MILVUS |-> FALSE, key |-> FALSE]
    /\ agent = NoAgent
    /\ pg = NoPg
    /\ task = [topic |-> "AI", depth |-> "basic"]
    /\ pc = "pg"
    /\ run = [i |-> 0, k |-> 0]
    /\ report = NoReport
    /\ final_result = NoReport
    /\ clock = 1
    /\ inserted = <<>>
    /\ pret = NoPRet
    /\ writer_docs = <<>>
    /\ research_result = NoResearchResult
    /\ embedded = <<>>
    /\ stages = <<>>
    /\ InitAppVars

\* the variables the PostgresClient calls leave alone
pgFrame == <<storeVars, kret, env, cfg, agent, task, pc, run, report, final_result,
             clock, inserted, writer_docs, research_result, embedded, stages, appVars>>

PgConstruct ==
    /\ \E a \in PgOwners, ok \in BOOLEAN :
        /\ ~pg.made[a]
        /\ env.pg \/ ~ok
        /\ Fault(Cost(~env.pg, ~ok))
        /\ pg' = PostgresClient_init(pg, a, ok)
        /\ pret' = [NoPRet EXCEPT !.op = "init", !.owner = a]
    /\ UNCHANGED pgFrame

PgSave ==
    /\ \E a \in PgOwners, d \in SampleReports, ok \in BOOLEAN :
        /\ pg.made[a]
        /\ Len(pg.rows) < MaxDocs
        /\ (env.pg /\ ~PgForced(pg, a)) \/ ~ok
        /\ Fault(Cost(~pg.conn[a] \/ PgForced(pg, a), ~ok))
        /\ LET saved == save_report(pg, a, d[1], d[2], ok)
           IN  /\ pg' = saved.pg
               /\ pret' = [NoPRet EXCEPT !.op = "save", !.owner = a, !.id = saved.id,
                                         !.topic = d[1], !.content = d[2]]
    /\ UNCHANGED pgFrame

PgGet ==
    /\ \E a \in PgOwners, report_id \in 1..MaxDocs, ok \in BOOLEAN :
        /\ pg.made[a]
        /\ (pg.conn[a] /\ ~pg.closed[a]) \/ ~ok
        /\ Fault(Cost(~pg.conn[a] \/ PgForced(pg, a), ~ok))
        /\ LET got == get_report(pg, a, report_id, ok)
           IN  pret' = [NoPRet EXCEPT !.op = "get", !.owner = a, !.id = report_id,
                                      !.found = got.found, !.row = got.row]
    /\ UNCHANGED <<pg, pgFrame>>

PgList ==
    /\ \E a \in PgOwners, ok \in BOOLEAN :
        /\ pg.made[a]
        /\ (pg.conn[a] /\ ~pg.closed[a]) \/ ~ok
        /\ Fault(Cost(~pg.conn[a] \/ PgForced(pg, a), ~ok))
        /\ pret' = [NoPRet EXCEPT !.op = "list", !.owner = a,
                                  !.rows = get_all_reports(pg, a, ok)]
    /\ UNCHANGED <<pg, pgFrame>>

PgClose ==
    /\ \E a \in PgOwners :
        /\ pg.made[a]
        /\ pg' = PostgresClient_close(pg, a)
        /\ pret' = [NoPRet EXCEPT !.op = "close", !.owner = a]
    /\ UNCHANGED <<faults, pgFrame>>

\* the process ends and a new one starts: the objects are gone, the tables stay
PgRestart ==
    /\ \E a \in PgOwners : pg.made[a]
    /\ pg' = [NoPg EXCEPT !.serial = pg.serial, !.rows = pg.rows]
    /\ pret' = NoPRet
    /\ UNCHANGED <<faults, pgFrame>>

PgNext ==
    \/ PgConstruct
    \/ PgSave
    \/ PgGet
    \/ PgList
    \/ PgClose
    \/ PgRestart

PgSpec == InitPg /\ [][PgNext]_vars

(***************************************************************************)
(* The ReviewAgent on its own: review_report applied to arbitrary content, *)
(* and its assessment step applied to arbitrary scores.                    *)
(***************************************************************************)
\* lengths on both sides of the two thresholds of _assess_content_quality
Lengths == {0, 199, 200, 1000, 2000, 2001}

\* the contents handed to review_report: every combination of what the review
\* reads (the empty string contains nothing)
Contents ==
    {FreeText(len, title, sections, marker, boiler, placeholders) :
        len \in Lengths \ {0}, title \in BOOLEAN,
        sections \in SUBSET {Sections[i] : i \in DOMAIN Sections},
        marker \in BOOLEAN, boiler \in 0..2, placeholders \in 0..3}
    \cup {FreeText(0, FALSE, {}, FALSE, 0, 0)}

Scores == 0..MaxScore

InitReview ==
    /\ InitStoreVars
    /\ file = [state |-> "absent", text |-> <<>>]
    /\ held = [local_data |-> <<>>, write_failed |-> FALSE]
    /\ env = [milvus |-> FALSE, pg |-> FALSE]
    /\ cfg = [USE_MILVUS |-> FALSE, key |-> FALSE]
    /\ agent = NoAgent
    /\ pg = NoPg
    /\ task = [topic |-> "AI", depth |-> "basic"]
    /\ pc = "review_api"
    /\ run = [i |-> 0, k |-> 0]
    /\ \/ \E content \in Contents : report = [NoReport EXCEPT !.content = content]
       \/ \E quality_score \in Scores :
             report = [NoReport EXCEPT !.review.quality_score = quality_score]
    /\ final_result = NoReport
    /\ clock = 1
    /\ inserted = <<>>
    /\ pret = NoPRet
    /\ writer_docs = <<>>
    /\ research_result = NoResearchResult
    /\ embedded = <<>>
    /\ stages = <<>>
    /\ InitAppVars

\* the variables the ReviewAgent leaves alone
reviewFrame == <<storeVars, kret, faults, env, cfg, agent, pg, task, pc, run,
                 final_result, clock, inserted, pret, writer_docs, research_result,
                 embedded, stages, appVars>>

\* review_report(content) of a content drawn at the start
Review ==
    /\ pc = "review_api"
    /\ report.content.kind = "free"
    /\ ~report.has_review
    /\ report' = [report EXCEPT !.present = TRUE, !.has_review = TRUE,
                                !.review = review_report(report.content)]
    /\ UNCHANGED reviewFrame

\* the if/elif chain over quality_score, of a score drawn at the start
Assess ==
    /\ pc = "review_api"
    /\ report.content.kind = "none"
    /\ report.review.overall_assessment = ""
    /\ report' = [report EXCEPT !.review.overall_assessment =
                                    overall_assessment(report.review.quality_score)]
    /\ UNCHANGED reviewFrame

ReviewNext ==
    \/ Review
    \/ Assess

ReviewSpec == InitReview /\ [][ReviewNext]_vars

(***************************************************************************)
(* app.py: concurrent requests and the ReportGenerator threads they start, *)
(* in a deployment without API key, Milvus and PostgreSQL (every store     *)
(* client is local, every report is the templated one).                    *)
(***************************************************************************)
\* topics of a generate_report request: none, a one-line and a two-line topic
AppTopics == {"", "AI", TwoLineTopic}

\* mode of a generate_report request
Modes == {"simple", "orchestrator"}

\* message of a chat request, query of a query_knowledge request: none or some
\* (a message without the keywords that start a research run)
AppInputs == {"", "hello"}

\* the store clients of the agents thread t constructs (thread 0 is the one
\* that serves the requests)
RunClients == {<<t, a>> : t \in ReportIds, a \in {"research", "knowledge"}}

\* the deployment without API key, Milvus and PostgreSQL, nothing stored yet
InitOffline ==
    /\ remote = [exists |-> FALSE, rows |-> <<>>]
    /\ connected = FALSE
    /\ client = [c \in RunClients |-> NoClient]
    /\ ret = [NoRet EXCEPT !.client = <<0, "none">>]
    /\ kret = NoKRet
    /\ faults = 0
    /\ backend0 = [c \in RunClients |-> FALSE]
    /\ file = [state |-> "absent", text |-> <<>>]
    /\ held = [local_data |-> <<>>, write_failed |-> FALSE]
    /\ env = [milvus |-> FALSE, pg |-> FALSE]
    /\ cfg = [USE_MILVUS |-> FALSE, key |-> FALSE]
    /\ agent = NoAgent
    /\ pg = NoPg
    /\ task = [topic |-> "", depth |-> "basic"]
    /\ pc = "serving"
    /\ run = [i |-> 0, k |-> 0]
    /\ report = NoReport
    /\ final_result = NoReport
    /\ clock = 1
    /\ inserted = <<>>
    /\ pret = NoPRet
    /\ writer_docs = <<>>
    /\ research_result = NoResearchResult
    /\ embedded = <<>>
    /\ stages = <<>>

InitApp ==
    /\ InitOffline
    /\ InitAppVars

\* what no request handler and no thread of app.py touches
appFrame == <<remote, connected, backend0, kret, env, cfg, agent, pg, task, pc, run,
              report, final_result, clock, pret, writer_docs, research_result,
              embedded, stages>>

\* variant without the check of the topic (C23 rejects it)
generate_report_unchecked(topic, mode) ==
    /\ request' = [NoRequest EXCEPT !.route = "generate_report", !.input = topic]
    /\ \E id \in ReportIds :
          /\ reports[id].status = "absent"
          /\ \A j \in ReportIds : reports[j].status = "absent" => id <= j
          /\ reports' = [reports EXCEPT ![id] = [NoEntry EXCEPT !.status = "processing"]]
          /\ threads' = [threads EXCEPT ![id] = [NoThread EXCEPT !.pc = "started",
                                                    !.topic = topic, !.mode = mode]]
          /\ response' = [NoResponse EXCEPT !.code = 200, !.body = "report_id",
                                            !.id = id]
    /\ UNCHANGED <<storeVars, faults, inserted, conversations, appFrame>>

\* POST /generate_report: 400 without a topic; else a fresh id, the entry
\* 'processing', the thread started, the id returned
generate_report(topic, mode) ==
    /\ request' = [NoRequest EXCEPT !.route = "generate_report", !.input = topic]
    /\ IF topic = ""
       THEN /\ response' = [NoResponse EXCEPT !.code = 400, !.body = "error"]
            /\ UNCHANGED <<reports, threads>>
       ELSE \E id \in ReportIds :
               /\ reports[id].status = "absent"
               /\ \A j \in ReportIds : reports[j].status = "absent" => id <= j
               /\ reports' = [reports EXCEPT
                                 ![id] = [NoEntry EXCEPT !.status = "processing"]]
               /\ threads' = [threads EXCEPT
                                 ![id] = [NoThread EXCEPT !.pc = "started",
                                                          !.topic = topic,
                                                          !.mode = mode]]
               /\ response' = [NoResponse EXCEPT !.code = 200, !.body = "report_id",
                                                 !.id = id]
    /\ UNCHANGED <<storeVars, faults, inserted, conversations, appFrame>>

\* GET /report_status/<report_id>: the entry, or 404 not_found
report_status(report_id) ==
    /\ request' = [NoRequest EXCEPT !.route = "report_status", !.id = report_id]
    /\ response' = IF reports[report_id].status # "absent"
                   THEN [NoResponse EXCEPT !.code = 200,
                                           !.body = reports[report_id].status,
                                           !.id = report_id,
                                           !.entry = reports[report_id]]
                   ELSE [NoResponse EXCEPT !.code = 404, !.body = "not_found",
                                           !.id = report_id]
    /\ UNCHANGED <<storeVars, faults, inserted, reports, conversations, threads,
                   appFrame>>

\* POST /chat: 400 without a message; else the message is appended to the
\* conversation, ResearchWorkflow() is constructed (its store clients load the
\* file) and the reply is appended, or the construction raises (500)
chat(message, conversation_id) ==
    /\ request' = [NoRequest EXCEPT !.route = "chat", !.input = message,
                                    !.id = conversation_id]
    /\ IF message = ""
       THEN /\ response' = [NoResponse EXCEPT !.code = 400, !.body = "error"]
            /\ UNCHANGED <<conversations, ret, faults>>
       ELSE /\ Len(conversations[conversation_id].messages) < MaxRequests
            /\ \E ok \in BOOLEAN :
                 /\ Fault(Cost(FALSE, ~ok))
                 /\ conversations' =
                       [conversations EXCEPT
                          ![conversation_id] =
                             [exists |-> TRUE,
                              messages |-> @.messages \o
                                 (IF ok THEN <<"user", "assistant">> ELSE <<"user">>)]]
                 /\ response' = IF ok
                                THEN [NoResponse EXCEPT !.code = 200, !.body = "message",
                                                        !.id = conversation_id]
                                ELSE [NoResponse EXCEPT !.code = 500, !.body = "error"]
            /\ ret' = Returned("init", <<0, "chat">>)
    /\ UNCHANGED <<file, remote, connected, client, held, backend0, inserted, reports,
                   threads, appFrame>>

\* POST /query_knowledge: 400 without a query; else OrchestratorAgent() is
\* constructed (its clients load the file) and the search results are returned
query_knowledge(query, limit) ==
    /\ request' = [NoRequest EXCEPT !.route = "query_knowledge", !.input = query]
    /\ IF query = ""
       THEN /\ response' = [NoResponse EXCEPT !.code = 400, !.body = "error"]
            /\ UNCHANGED ret
       ELSE LET hits == _search_local_documents(_load_local_data(file), limit)
            IN  /\ ret' = [Returned("search", <<0, "query">>) EXCEPT
                              !.hits = hits, !.limit = limit, !.served = "local"]
                /\ response' = [NoResponse EXCEPT
                                   !.code = 200, !.body = "results",
                                   !.results = [i \in 1..Len(hits) |->
                                                   KnowledgeItem(hits[i])]]
    /\ UNCHANGED <<file, remote, connected, client, held, backend0, faults, inserted,
                   reports, conversations, threads, appFrame>>

\* ReportGenerator.run: OrchestratorAgent() / ResearchWorkflow() -- the store
\* clients of the ResearchAgent and the KnowledgeAgent load the file
run_construct(t) ==
    /\ threads[t].pc = "started"
    /\ client' = [client EXCEPT ![<<t, "research">>] = LocalClient(file),
                                ![<<t, "knowledge">>] = LocalClient(file)]
    /\ threads' = [threads EXCEPT ![t].pc = "constructed"]
    /\ UNCHANGED <<file, remote, connected, ret, held, backend0, faults, inserted,
                   reports, conversations, request, response, appFrame>>

\* ReportGenerator.run: process_research_topic -- the one chunk of the topic is
\* inserted through the ResearchAgent's client
run_research(t) ==
    /\ threads[t].pc = "constructed"
    /\ LET text == split_text(threads[t].topic, 1)[1]
       IN  /\ insert_document(<<t, "research">>, text, ZeroEmbedding,
                              Source("Research on", threads[t].topic, 1), clock, "ok")
           /\ inserted' = Append(inserted, text)
    /\ threads' = [threads EXCEPT ![t].pc = "researched"]
    /\ UNCHANGED <<faults, reports, conversations, request, response, appFrame>>

\* write_report and review_report of a run in this deployment, per topic: the
\* search raises (no embedding model), the writer gets the placeholder document
\* and fills the template (no generation model); the review is the rule-based one
offline_report ==
    [topic \in AppTopics \ {""} |->
       LET docs == write_report_except(topic, TRUE, <<>>).docs
           content == _generate_report_from_docs(topic, docs, FALSE, -1)
       IN  [content |-> content, review |-> review_report(content)]]

\* ReportGenerator.run: write_report (no embedding model: the placeholder
\* document; no generation model: the templated report), review_report,
\* add_knowledge through the KnowledgeAgent's client, and in orchestrator mode
\* get_knowledge_stats
run_report(t) ==
    /\ threads[t].pc = "researched"
    /\ LET topic == threads[t].topic
           content == offline_report[topic].content
       IN  /\ insert_document(<<t, "knowledge">>, content, ZeroEmbedding,
                              Source("Research on", topic, 0), clock, "ok")
           /\ inserted' = Append(inserted, content)
           /\ threads' =
                 [threads EXCEPT
                    ![t].pc = "reported",
                    ![t].result =
                       [NoReport EXCEPT
                          !.present = TRUE, !.report_id = SentinelId, !.topic = topic,
                          !.content = content, !.has_review = TRUE,
                          !.review = offline_report[topic].review,
                          !.has_stats = threads[t].mode = "orchestrator",
                          !.knowledge_stats =
                             IF threads[t].mode = "orchestrator"
                             THEN get_knowledge_stats(client'[<<t, "knowledge">>])
                             ELSE NoStats]]
    /\ UNCHANGED <<faults, reports, conversations, request, response, appFrame>>

\* ReportGenerator.run: the run returned; close(); reports[report_id] =
\* {'status': 'completed', 'data': report}; the thread's agents are gone
run_return(t) ==
    /\ threads[t].pc = "reported"
    /\ reports' = [reports EXCEPT
                      ![t] = [NoEntry EXCEPT !.status = "completed",
                                             !.data = threads[t].result]]
    /\ threads' = [threads EXCEPT ![t].pc = "done", ![t].result = NoReport]
    /\ client' = [client EXCEPT ![<<t, "research">>] = NoClient,
                                ![<<t, "knowledge">>] = NoClient]
    /\ UNCHANGED <<file, remote, connected, ret, held, backend0, faults, inserted,
                   conversations, request, response, appFrame>>

\* variant without the except clause: the exception ends the thread and the
\* entry stays as it is (C29 rejects it)
run_except_uncaught(t) ==
    /\ threads[t].pc \in {"started", "constructed", "researched", "reported"}
    /\ Fault(1)
    /\ threads' = [threads EXCEPT ![t].pc = "done", ![t].result = NoReport]
    /\ client' = [client EXCEPT ![<<t, "research">>] = NoClient,
                                ![<<t, "knowledge">>] = NoClient]
    /\ UNCHANGED <<file, remote, connected, ret, held, backend0, inserted, reports,
                   conversations, request, response, appFrame>>

\* ReportGenerator.run: an exception left the try block; reports[report_id] =
\* {'status': 'error', 'error': str(e)}
run_except(t) ==
    /\ threads[t].pc \in {"started", "constructed", "researched", "reported"}
    /\ Fault(1)
    /\ reports' = [reports EXCEPT ![t] = [NoEntry EXCEPT !.status = "error",
                                                         !.error = TRUE]]
    /\ threads' = [threads EXCEPT ![t].pc = "done", ![t].result = NoReport]
    /\ client' = [client EXCEPT ![<<t, "research">>] = NoClient,
                                ![<<t, "knowledge">>] = NoClient]
    /\ UNCHANGED <<file, remote, connected, ret, held, backend0, inserted,
                   conversations, request, response, appFrame>>

\* one step of the thread of report t
ReportGenerator_run(t) ==
    \/ run_construct(t)
    \/ run_research(t)
    \/ run_report(t)
    \/ run_return(t)
    \/ run_except(t)

AppNext ==
    \/ \E topic \in AppTopics, mode \in Modes : generate_report(topic, mode)
    \/ \E report_id \in ReportIds : report_status(report_id)
    \/ \E message \in AppInputs, conversation_id \in ConvIds :
          chat(message, conversation_id)
    \/ \E query \in AppInputs : query_knowledge(query, MaxLimit)
    \/ \E t \in ReportIds : ReportGenerator_run(t)

AppSpec == InitApp /\ [][AppNext]_vars

\* the requests about reports and the threads they start
ReportNext ==
    \/ \E topic \in AppTopics, mode \in Modes : generate_report(topic, mode)
    \/ \E report_id \in ReportIds : report_status(report_id)
    \/ \E t \in ReportIds : ReportGenerator_run(t)

\* a started thread is scheduled until its run() ends
ReportFairSpec ==
    /\ InitApp
    /\ [][ReportNext]_vars
    /\ \A t \in ReportIds : WF_vars(ReportGenerator_run(t))

(***************************************************************************)
(* The chat-bot endpoint: FeishuIntegration.parse_command and               *)
(* FeishuHandler.handle_message.  A text is a sequence of tokens: words     *)
(* (taken whole) and single spaces.                                        *)
(***************************************************************************)
\* the @mention of the bot as the platform writes it into the text
Mention == "@_user_1"

\* words of a text: the mention, help in both cases, a command of the office
\* assistant (the statistics one) and a word that is no command
Words == {Mention, "help", "HELP", "stats", "foo"}

Tokens == Words \cup {" "}

\* texts of at most MaxTokens tokens in which a space separates any two words
Texts ==
    {m \in UNION {[1..n -> Tokens] : n \in 0..MaxTokens} :
        \A i \in 1..(Len(m) - 1) : m[i] = " " \/ m[i + 1] = " "}

\* str.strip()
RECURSIVE strip(_)
strip(s) ==
    IF s = <<>> THEN s
    ELSE IF s[1] = " " THEN strip(Tail(s))
    ELSE IF s[Len(s)] = " " THEN strip(SubSeq(s, 1, Len(s) - 1))
    ELSE s

\* str.split(" ", maxsplit): cut at each of the first maxsplit spaces
RECURSIVE split(_, _)
split(s, maxsplit) ==
    IF maxsplit = 0 \/ \A i \in 1..Len(s) : s[i] # " "
    THEN <<s>>
    ELSE LET i == CHOOSE k \in 1..Len(s) :
                     s[k] = " " /\ \A j \in 1..(k - 1) : s[j] # " "
         IN  <<SubSeq(s, 1, i - 1)>> \o split(SubSeq(s, i + 1, Len(s)), maxsplit - 1)

\* str.lower()
lower(s) == [i \in 1..Len(s) |-> IF s[i] = "HELP" THEN "help" ELSE s[i]]

\* the dict parse_command returns; has_args: the key "args" is in it
parse_command(text) ==
    LET stripped == strip(text)
        parts == split(stripped, 2)
        content == IF stripped # <<>> /\ stripped[1] = Mention
                   THEN (IF Len(parts) > 1 THEN parts[Len(parts)] ELSE <<>>)
                   ELSE stripped
        cmd == split(content, 1)
    IN  IF content = <<>>
        THEN [command |-> <<"help">>, has_args |-> FALSE, args |-> <<>>]
        ELSE [command |-> lower(cmd[1]), has_args |-> TRUE,
              args |-> IF Len(cmd) > 1 THEN cmd[2] ELSE <<>>]

\* _handle_help
_handle_help == [success |-> TRUE, message |-> "help_text", error |-> FALSE]

\* _handle_unknown_command
_handle_unknown_command == [success |-> FALSE, message |-> "unknown_command",
                            error |-> FALSE]

\* the except branch of handle_message
handle_message_except == [success |-> FALSE, message |-> "handling_failed",
                          error |-> TRUE]

\* the commands handle_message hands to the office assistant
OfficeCommands == {<<"stats">>}

\* the dicts handle_message may return for a text: parsed["args"] raises
\* KeyError when the key is missing; an office command succeeds or its handler
\* raises
handle_message(text) ==
    LET parsed == parse_command(text)
    IN  IF ~parsed.has_args THEN {handle_message_except}
        ELSE IF parsed.command = <<"help">> THEN {_handle_help}
        ELSE IF parsed.command \in OfficeCommands
             THEN {[success |-> TRUE, message |-> "statistics", error |-> FALSE],
                   handle_message_except}
        ELSE {_handle_unknown_command}

NoReply == [success |-> FALSE, message |-> "none", error |-> FALSE]

InitFeishu ==
    /\ InitOffline
    /\ reports = [id \in ReportIds |-> NoEntry]
    /\ conversations = [c \in ConvIds |-> NoConversation]
    /\ threads = [id \in ReportIds |-> NoThread]
    /\ request \in {[route |-> "feishu", text |-> m] : m \in Texts}
    /\ response = NoReply

feishuFrame == <<storeVars, faults, inserted, reports, conversations, threads, appFrame>>

\* the webhook hands the message to handle_message and sends its answer
HandleMessage ==
    /\ response = NoReply
    /\ response' \in handle_message(request.text)
    /\ UNCHANGED <<request, feishuFrame>>

\* the next message arrives
ReceiveMessage ==
    /\ response # NoReply
    /\ request' \in {[route |-> "feishu", text |-> m] : m \in Texts}
    /\ response' = NoReply
    /\ UNCHANGED feishuFrame

FeishuNext == HandleMessage \/ ReceiveMessage

FeishuSpec == InitFeishu /\ [][FeishuNext]_vars

(***************************************************************************)
(* The writer's generation step on its own, followed by the review of what *)
(* it returned: any topic, any list of retrieved contents.                 *)
(***************************************************************************)
\* topics a request may carry: those of Topics and one with a line break
TemplateTopics == Topics \cup {TwoLineTopic}

\* contents a search may have returned: a research chunk, the second chunk of a
\* long research content, the placeholder document, an earlier templated report
SampleContents ==
    {Text("chunk", "AI", 1, 1), Text("chunk", "Long", 1, 2), DefaultContent("AI"),
     TemplateReport("AI", <<>>)}

\* doc_contents: up to MaxDocs retrieved contents
DocLists == UNION {[1..n -> SampleContents] : n \in 0..MaxDocs}

InitTemplate ==
    /\ InitStoreVars
    /\ file = [state |-> "absent", text |-> <<>>]
    /\ held = [local_data |-> <<>>, write_failed |-> FALSE]
    /\ env = [milvus |-> FALSE, pg |-> FALSE]
    /\ cfg \in [USE_MILVUS : {FALSE}, key : BOOLEAN]
    /\ agent = [NoAgent EXCEPT !.writer_llm = cfg.key]
    /\ pg = NoPg
    /\ task \in [topic : TemplateTopics, depth : {"basic"}]
    /\ pc = "generate"
    /\ run = [i |-> 0, k |-> 0]
    /\ report = NoReport
    /\ final_result = NoReport
    /\ clock = 1
    /\ inserted = <<>>
    /\ pret = NoPRet
    /\ writer_docs \in DocLists
    /\ research_result = NoResearchResult
    /\ embedded = <<>>
    /\ stages = <<>>
    /\ InitAppVars

\* _generate_report_from_docs(topic, doc_contents) with the model answering
\* (answer 0 or 1), raising, or not configured (answer -1)
GenerateReport ==
    /\ pc = "generate"
    /\ \E answer \in {-1} \cup LlmAnswers :
        /\ agent.writer_llm \/ answer = -1
        /\ Fault(Cost(~agent.writer_llm, answer = -1))
        /\ report' = [NoReport EXCEPT
                         !.present = TRUE, !.topic = task.topic,
                         !.content = _generate_report_from_docs(task.topic, writer_docs,
                                                                agent.writer_llm, answer)]
    /\ pc' = "generated"
    /\ UNCHANGED <<storeVars, kret, env, cfg, agent, pg, task, run, final_result, clock,
                   inserted, pret, writer_docs, research_result, embedded, stages, appVars>>

\* review_report(report["content"], topic) of what was generated
ReviewGenerated ==
    /\ pc = "generated"
    /\ report' = [report EXCEPT !.has_review = TRUE,
                                !.review = review_report(report.content)]
    /\ pc' = "reviewed"
    /\ UNCHANGED <<storeVars, kret, faults, env, cfg, agent, pg, task, run, final_result,
                   clock, inserted, pret, writer_docs, research_result, embedded, stages, appVars>>

TemplateNext ==
    \/ GenerateReport
    \/ ReviewGenerated

TemplateSpec == InitTemplate /\ [][TemplateNext]_vars

(***************************************************************************)
(* Properties of the orchestrated run (Spec)                               *)
(***************************************************************************)

\* C1 (as the specification states it): in local mode the fallback file is
\* append-only across the clients that share it -- a local insert whose write
\* succeeded (none has failed so far) leaves the file one chunk longer, with
\* every chunk it held before still there, in place.
C1_FileAppendOnly ==
    [][(/\ Len(inserted') = Len(inserted) + 1
        /\ ~client[ret'.client].use_milvus
        /\ ~held'.write_failed)
       => (/\ file'.state = "ok"
           /\ Len(file'.text) = Len(file.text) + 1
           /\ SubSeq(file'.text, 1, Len(file.text)) = file.text)]_vars

\* C2: with no embedding model, no generation model, Milvus unreachable and
\* PostgreSQL unreachable, a finished run of depth "basic" has returned a report
\* with non-empty content, a review whose quality_score is in 0..100, and
\* knowledge_stats.total_knowledge >= 1.
C2_DegradedRun ==
    (/\ pc = "done"
     /\ task.depth = "basic"
     /\ ~agent.research_emb /\ ~agent.writer_emb /\ ~agent.writer_llm
     /\ ~env.milvus /\ ~env.pg)
    => (/\ final_result.present
        /\ Length(final_result.content) > 0
        /\ final_result.has_review
        /\ final_result.review.quality_score \in 0..100
        /\ final_result.has_stats
        /\ final_result.knowledge_stats.total_knowledge >= 1)

\* C2 witness: such a run has finished
C2_Witness ==
    /\ pc = "done"
    /\ task.depth = "basic"
    /\ ~agent.research_emb /\ ~agent.writer_emb /\ ~agent.writer_llm
    /\ ~env.milvus /\ ~env.pg
    /\ final_result.knowledge_stats.total_knowledge >= 1

C13_ResearchCount ==
    /\ pc = "write"
       => (/\ research_result.present
           /\ research_result.count = Len(split_text(task.topic, run.i))
           /\ Len(inserted) = run.i * research_result.count
           /\ Len(embedded) = Len(inserted)
           /\ SubSeq(inserted, Len(inserted) - research_result.count + 1, Len(inserted))
              = split_text(task.topic, run.i))
    /\ \A j \in DOMAIN embedded :
          embedded[j].no_vector
          => embedded[j].embedding = [dim |-> EmbeddingDim, zero |-> TRUE]

\* C13 witness: a research call over two chunks has returned; embed_query
\* raised for one chunk and answered for the other
C13_Witness ==
    /\ pc = "write"
    /\ research_result.count = 2
    /\ agent.research_emb
    /\ \E j \in DOMAIN embedded : embedded[j].no_vector
    /\ \E j \in DOMAIN embedded : ~embedded[j].no_vector

\* C14: write_report is fail-open.  When it has returned, the documents it
\* handed to generation are the contents of the search results (at most 5) if
\* its search returned, and exactly the one placeholder document otherwise (no
\* embedding model, embed_query raised, or the search raised); the content is
\* what generation made of those documents; save_report was called with that
\* content, once, and the result carries its id, the input topic and the content.
C14_FailOpen ==
    pc = "review"
    => (/\ IF ret.op = "search" /\ ret.client = "writer" /\ ~ret.raised
           THEN /\ agent.writer_emb
                /\ Len(writer_docs) <= WriterLimit
                /\ writer_docs = [j \in 1..Len(ret.hits) |-> ret.hits[j].content]
           ELSE writer_docs = <<DefaultContent(task.topic)>>
        /\ \/ report.content = TemplateReport(task.topic, writer_docs)
           \/ /\ agent.writer_llm
              /\ \E answer \in LlmAnswers :
                    report.content = Text("llm", task.topic, 0, answer)
        /\ pret.op = "save"
        /\ pret.owner = "writer"
        /\ pret.topic = task.topic
        /\ pret.content = report.content
        /\ Len(pg.rows) <= run.i
        /\ report.present
        /\ report.report_id = pret.id
        /\ report.topic = task.topic)

\* C14 witness: write_report has returned a templated report made of documents
\* its search found
C14_Witness ==
    /\ pc = "review"
    /\ ret.op = "search"
    /\ ~ret.raised
    /\ writer_docs # <<>>
    /\ report.content.kind = "template"

\* C19: execute_research_task runs the research, write and review stages
\* exactly `iterations` times each and then returns, where iterations is 1 for
\* depth basic, 2 for intermediate, 3 for deep and 1 for any other depth; the
\* research stage inserts its chunks again in every round, so when the loop is
\* over the run has issued iterations times the chunk count of one round
\* research inserts.  Checked under FairSpec.
C19_IterationsThenReturns ==
    /\ [](LET n == CASE task.depth = "basic" -> 1
                     [] task.depth = "intermediate" -> 2
                     [] task.depth = "deep" -> 3
                     [] OTHER -> 1
              count(s) == Cardinality({j \in DOMAIN stages : stages[j] = s})
          IN  /\ count("research") <= n
              /\ count("write") <= count("research")
              /\ count("review") <= count("write")
              /\ pc \in {"knowledge", "stats", "done"}
                 => (/\ count("research") = n
                     /\ count("write") = n
                     /\ count("review") = n
                     /\ run.i = n
                     /\ Len(embedded) = n * Len(split_text(task.topic, 1))
                     /\ \A j \in DOMAIN embedded : inserted[j] \in
                           {split_text(task.topic, i)[k] :
                              i \in 1..n, k \in DOMAIN split_text(task.topic, 1)}))
    /\ <>(pc = "done")

\* C19 witness: a deep run over a two-chunk topic has returned after three
\* rounds and six research inserts
C19_Witness ==
    /\ pc = "done"
    /\ task.depth = "deep"
    /\ Len(split_text(task.topic, 1)) = 2
    /\ Cardinality({j \in DOMAIN stages : stages[j] = "research"}) = 3
    /\ Cardinality({j \in DOMAIN stages : stages[j] = "review"}) = 3
    /\ Len(embedded) = 6

\* C20 (as the specification states it): every cycle passes through the four
\* states Research, Write, Review, Knowledge in that order: whatever stage step
\* follows a Review is that cycle's Knowledge step, and a further Research
\* only follows a Knowledge step.
C20_FourStatesPerCycle ==
    \A j \in 1..(Len(stages) - 1) :
        /\ stages[j] = "research" => stages[j + 1] = "write"
        /\ stages[j] = "write" => stages[j + 1] = "review"
        /\ stages[j] = "review" => stages[j + 1] = "knowledge"
        /\ stages[j] = "knowledge" => stages[j + 1] = "research"

\* C21: what execute_research_task returns is the report write_report made in
\* the last round, with the review of that same content; that content is what
\* add_knowledge was called with, once, right after the last review;
\* knowledge_stats is what get_knowledge_stats reads after that call; the
\* returned report has its review and its knowledge_stats (never the empty dict).
C21_LastCycleReport ==
    pc = "done"
    => (/\ final_result.present
        /\ final_result.has_review
        /\ final_result.has_stats
        /\ pret.op = "save"
        /\ final_result.content = pret.content
        /\ final_result.report_id = pret.id
        /\ final_result.topic = task.topic
        /\ final_result.review = review_report(final_result.content)
        /\ stages[Len(stages)] = "knowledge"
        /\ stages[Len(stages) - 1] = "review"
        /\ Cardinality({j \in DOMAIN stages : stages[j] = "knowledge"}) = 1
        /\ inserted[Len(inserted)] = final_result.content
        /\ kret.op = "stats"
        /\ final_result.knowledge_stats.total_knowledge = kret.total
        /\ client["knowledge"].hasLocal
           => (/\ kret.total = Len(client["knowledge"].local_data)
               /\ kret.total >= 1
               /\ client["knowledge"].local_data[kret.total].content
                  = final_result.content)
        /\ ~client["knowledge"].hasLocal => kret.total = 0)

\* C21 witness: a run of three rounds has returned, and the report of its last
\* round is not the one its generation model answered with in an earlier round
C21_Witness ==
    /\ pc = "done"
    /\ task.depth = "deep"
    /\ final_result.has_stats
    /\ \E i \in DOMAIN pg.rows : pg.rows[i].content # final_result.content

C25_WriterSeesResearch ==
    (/\ pc = "review"
     /\ ret.op = "search" /\ ret.client = "writer"
     /\ ~ret.raised
     /\ ret.served = "local"
     /\ inserted # <<>>)
    => (/\ ret.hits # <<>>
        /\ \E j \in DOMAIN ret.hits, i \in DOMAIN inserted :
              ret.hits[j].content = inserted[i])

(***************************************************************************)
(* Properties of the store client and the KnowledgeAgent (StoreSpec)       *)
(***************************************************************************)

\* C4: insert_document never raises -- after any insert, remote or local, failed
\* or not, the call has returned normally and the client is still constructed,
\* in the mode it had, with what that mode needs (collection or local list).
C4_InsertNeverRaises ==
    ret.op = "insert"
    => (/\ ~ret.raised
        /\ client[ret.client].made
        /\ client[ret.client].use_milvus = backend0[ret.client]
        /\ IF client[ret.client].use_milvus THEN client[ret.client].collection
           ELSE client[ret.client].hasLocal)

\* C4 witness: a local insert whose json.dump failed (the file is left corrupt)
\* has returned
C4_Witness ==
    /\ ret.op = "insert"
    /\ ~client[ret.client].use_milvus
    /\ file.state = "corrupt"

\* C5 (as the specification states it): when a search of a client that was
\* constructed in remote mode is not answered by the remote backend, the call
\* returns the local result without raising and the client is in local mode
\* from then on.
C5_SearchFallsBack ==
    (/\ ret.op = "search"
     /\ backend0[ret.client]
     /\ ret.served # "remote")
    => (/\ ~ret.raised
        /\ ret.served = "local"
        /\ ~client[ret.client].use_milvus)

\* C6: the backend is decided by the constructor -- a constructed client has the
\* use_milvus its constructor left, a remote client has its collection bound, a
\* local client has its list loaded, and a client constructed while the server
\* was unreachable is local.
C6_BackendFixed ==
    \A c \in Clients :
        client[c].made
        => (/\ client[c].use_milvus = backend0[c]
            /\ client[c].use_milvus => (client[c].collection /\ ~client[c].hasLocal)
            /\ ~client[c].use_milvus => client[c].hasLocal
            /\ ~env.milvus => ~client[c].use_milvus)

\* C6 witness: a remote client whose search has failed is still a remote client
C6_Witness ==
    /\ ret.op = "search"
    /\ ret.raised
    /\ client[ret.client].use_milvus
    /\ backend0[ret.client]

\* C7 (as the specification states it): a local search with limit k >= 1 over a
\* list of n >= k documents returns the last k documents most recent first.
C7_MostRecentFirst ==
    (/\ ret.op = "search"
     /\ ret.served = "local"
     /\ ret.limit >= 1
     /\ Len(client[ret.client].local_data) >= ret.limit)
    => (/\ Len(ret.hits) = ret.limit
        /\ \A j \in 1..ret.limit :
              ret.hits[j] = client[ret.client].local_data[
                                Len(client[ret.client].local_data) - j + 1])

\* C8 (as the specification states it): a local search returns at most limit
\* documents for every limit >= 0, and so does search_knowledge.
C8_CappedAtLimit ==
    /\ (ret.op = "search" /\ ret.served = "local") => Len(ret.hits) <= ret.limit
    /\ (kret.op = "search" /\ ret.served = "local") => Len(kret.hits) <= kret.limit

\* C9: restart round trip -- provided no write of the file has failed, a client
\* newly constructed in local mode holds exactly the list the last inserting
\* client held: the same documents (id, content, embedding, source, timestamp)
\* in the same order.
C9_RestartRoundTrip ==
    (/\ ret.op = "init"
     /\ ~client[ret.client].use_milvus
     /\ ~held.write_failed)
    => client[ret.client].local_data = held.local_data

\* C9 witness: a client constructed after a restart has loaded two documents,
\* one of them with a real embedding
C9_Witness ==
    /\ ret.op = "init"
    /\ ~client[ret.client].use_milvus
    /\ ~held.write_failed
    /\ Len(client[ret.client].local_data) >= 2
    /\ \E i \in DOMAIN client[ret.client].local_data :
          client[ret.client].local_data[i].embedding = ProviderEmbedding

\* C10: update_knowledge and delete_knowledge return False and change nothing
\* in the store: every client's fields, the file and the collection are as before.
C10_Unsupported ==
    [][kret'.op \in {"update", "delete"}
       => (/\ ~kret'.ok
           /\ client' = client
           /\ file' = file
           /\ remote' = remote)]_vars

\* C10 witness: delete_knowledge has been called on a store that holds documents
C10_Witness ==
    /\ kret.op = "delete"
    /\ client["knowledge"].local_data # <<>>
    /\ file.state = "ok"

\* C27 (as the specification states it): add_knowledge returns True exactly
\* when the content was stored -- a row more in the collection in remote mode,
\* the client's list with the new chunk written to the file in local mode --
\* and False when the insert or the write of the file failed.
C27_TrueMeansStored ==
    [][kret'.op = "add"
       => (kret'.ok
           <=> IF client[K].use_milvus
               THEN Len(remote'.rows) = Len(remote.rows) + 1
               ELSE /\ Len(client'[K].local_data) = Len(client[K].local_data) + 1
                    /\ file'.state = "ok"
                    /\ json_load(file'.text) = client'[K].local_data)]_vars

\* C28 (as the specification states it): every record of the store has an
\* embedding of 1024 floats -- in the collection, in every client's list and
\* in the fallback file; an insert with another width stores nothing.
C28_OneWidth ==
    /\ \A i \in DOMAIN remote.rows : remote.rows[i].embedding.dim = EmbeddingDim
    /\ \A c \in Clients : \A i \in DOMAIN client[c].local_data :
          client[c].local_data[i].embedding.dim = EmbeddingDim
    /\ \A i \in DOMAIN _load_local_data(file) :
          _load_local_data(file)[i].embedding.dim = EmbeddingDim

(***************************************************************************)
(* Properties of the PostgresClient (PgSpec)                               *)
(***************************************************************************)

\* C11: a client whose connection attempt failed in its constructor stays
\* unconnected for as long as the object lives, and every call on it is
\* degraded: save_report returns the sentinel id 1 and stores nothing,
\* get_report returns None, get_all_reports returns [].
C11_DegradedForLife ==
    [][\A a \in PgOwners :
          (pg.made[a] /\ pg'.made[a] /\ ~pg.conn[a])
          => (/\ ~pg'.conn[a]
              /\ pret'.owner = a
                 => (/\ pg'.rows = pg.rows
                     /\ pg'.serial = pg.serial
                     /\ pret'.op = "save" => pret'.id = SentinelId
                     /\ pret'.op = "get" => ~pret'.found
                     /\ pret'.op = "list" => pret'.rows = <<>>))]_vars

\* C11 witness: get_report on a client whose connection attempt failed, while
\* the database is reachable and holds reports another client saved
C11_Witness ==
    /\ pret.op = "get"
    /\ pg.made[pret.owner]
    /\ ~pg.conn[pret.owner]
    /\ env.pg
    /\ pg.rows # <<>>

\* C12 (as the specification states it): on a client that holds a connection,
\* the id save_report returned is the id of a row with the topic and the
\* content just saved.
C12_IdIdentifiesRow ==
    (/\ pret.op = "save"
     /\ pg.conn[pret.owner])
    => \E i \in DOMAIN pg.rows :
          /\ pg.rows[i].id = pret.id
          /\ pg.rows[i].topic = pret.topic
          /\ pg.rows[i].content = pret.content

(***************************************************************************)
(* Properties of the ReviewAgent (ReviewSpec)                              *)
(***************************************************************************)

\* C15 (as the specification states it): a content of length 200..2000 with the
\* evidence marker, at most one boilerplate phrase, a title and all three
\* section labels is reviewed with quality_score 100 and assessed Excellent.
C15_FullMarks ==
    (/\ report.has_review
     /\ Length(report.content) >= 200 /\ Length(report.content) <= 2000
     /\ HasMarker(report.content)
     /\ BoilerCount(report.content) <= 1
     /\ HasTitle(report.content)
     /\ \A i \in DOMAIN Sections : HasSection(report.content, Sections[i]))
    => (/\ report.review.quality_score = 100
        /\ report.review.overall_assessment = "Excellent")

\* C16 (as the specification states it): for a content with none of the three
\* section labels the feedback of review_report has exactly 4 entries: the
\* missing title, then the missing introduction, body and conclusion.
C16_FourEntries ==
    (/\ report.has_review
     /\ \A i \in DOMAIN Sections : ~HasSection(report.content, Sections[i]))
    => (/\ Len(report.review.feedback) = 4
        /\ report.review.feedback = <<"missing title", "intro", "body", "conclusion">>)

\* C17: quality_score = structure + content + language, where structure is 20
\* with the title and all three sections and 0 otherwise, content is 20 (length
\* in 200..2000) + 10 (evidence marker) + 10 (boilerplate at most once), and
\* language is 20 unless all three placeholder patterns match; the sub-scores
\* are within 0..20, 0..40 and 0..20 and the score is within 0..100.
C17_ScoreIsSum ==
    report.has_review
    => LET x == report.content
           structure == IF HasTitle(x) /\ \A i \in DOMAIN Sections : HasSection(x, Sections[i])
                        THEN 20 ELSE 0
           content == (IF Length(x) >= 200 /\ Length(x) <= 2000 THEN 20 ELSE 0)
                      + (IF HasMarker(x) THEN 10 ELSE 0)
                      + (IF BoilerCount(x) <= 1 THEN 10 ELSE 0)
           language == IF PlaceholderCount(x) = 3 THEN 0 ELSE 20
       IN  /\ report.review.quality_score = structure + content + language
           /\ structure \in 0..20
           /\ content \in 0..40
           /\ language \in 0..20
           /\ report.review.quality_score \in 0..100

\* C17 witness: a content in which only two placeholder patterns match, and
\* nothing else is wrong, has been reviewed
C17_Witness ==
    /\ report.has_review
    /\ report.content.kind = "free"
    /\ PlaceholderCount(report.content) = 2
    /\ report.review.feedback = <<>>
    /\ report.review.quality_score = 80

\* C18: overall_assessment is a step function of quality_score alone -- 80 and
\* above Excellent, 60..79 Good, 40..59 Fair, below 40 Poor -- and a higher
\* score never gets a lower assessment.
C18_StepFunction ==
    LET rank(a) == CASE a = "Excellent" -> 3 [] a = "Good" -> 2 [] a = "Fair" -> 1
                     [] OTHER -> 0
        step(q) == IF q >= 80 THEN "Excellent" ELSE IF q >= 60 THEN "Good"
                   ELSE IF q >= 40 THEN "Fair" ELSE "Poor"
    IN  /\ (report.content.kind = "none" /\ report.review.overall_assessment # "")
           => report.review.overall_assessment = step(report.review.quality_score)
        /\ report.has_review
           => report.review.overall_assessment = step(report.review.quality_score)
        /\ \A q1, q2 \in Scores :
              q1 <= q2 => rank(overall_assessment(q1)) <= rank(overall_assessment(q2))
        /\ overall_assessment(79) = "Good" /\ overall_assessment(80) = "Excellent"
        /\ overall_assessment(59) = "Fair" /\ overall_assessment(60) = "Good"
        /\ overall_assessment(39) = "Poor" /\ overall_assessment(40) = "Fair"

\* C18 witness: the score 79 has been assessed
C18_Witness ==
    /\ report.content.kind = "none"
    /\ report.review.quality_score = 79
    /\ report.review.overall_assessment = "Good"

\* C26 (as the specification states it): whenever the generation model fails
\* or is not configured, the content the writer produces passes the structure
\* check for every topic and every list of retrieved contents: its review has
\* no structure item (title and the three sections are found) and it gets the
\* 20 structure points.
C26_TemplatePassesStructure ==
    (/\ pc = "reviewed"
     /\ report.content.kind = "template")
    => (/\ \A j \in DOMAIN report.review.feedback :
              report.review.feedback[j]
                 \notin {"missing title", "intro", "body", "conclusion"}
        /\ report.review.quality_score
           = 20 + _assess_content_quality(report.content).score
                + (IF _check_language(report.content) = <<>> THEN 20 ELSE 0))

(***************************************************************************)
(* Properties of the web application (AppSpec, ReportFairSpec)             *)
(***************************************************************************)
\* the step handled a request (a repeated request with the same answer that
\* changes nothing else is a stuttering step)
Handled(route) ==
    /\ request' # request \/ response' # response
    /\ request'.route = route

\* C23: a generate_report request with an empty topic, a chat request with an
\* empty message and a query_knowledge request with an empty query each get the
\* error response 400, and the step leaves the reports map, the conversations
\* map, the threads, the store (file, remote collection, every client) and the
\* record of the last store call as they were.
C23_RejectsEmptyInput ==
    [][(\E route \in {"generate_report", "chat", "query_knowledge"} : Handled(route))
         /\ request'.input = ""
       => /\ response'.code = 400
          /\ response'.body = "error"
          /\ UNCHANGED <<reports, conversations, threads, storeVars, inserted>>]_vars

\* an empty topic was rejected while a run was in flight and ids were left
C23_Witness ==
    /\ request.route = "generate_report"
    /\ request.input = ""
    /\ response.code = 400
    /\ \E id \in ReportIds : threads[id].pc = "researched"
    /\ \E id \in ReportIds : reports[id].status = "absent"

\* C24 (as claimed): when every run that was started has returned, the file
\* holds every chunk and report a run inserted.
C24_NoInsertLost ==
    (/\ \E t \in ReportIds : threads[t].pc = "done"
     /\ \A t \in ReportIds : threads[t].pc \in {"none", "done"}
     /\ \A t \in ReportIds : reports[t].status \in {"absent", "completed"})
    => \A i \in 1..Len(inserted) :
          \E j \in 1..Len(_load_local_data(file)) :
             _load_local_data(file)[j].content = inserted[i]

\* C29: the entry of a report id changes only from absent to 'processing' (in
\* the step that starts its thread) and from 'processing' to 'completed' with
\* the run's report or to 'error' with the error text (in the step that ends its
\* thread); a started thread always has an entry; report_status of an id without
\* entry answers 404 not_found; and an entry that is 'processing' eventually is
\* 'completed' or 'error'.
C29_ReportLifecycle ==
    /\ [][\A id \in ReportIds :
            reports'[id] # reports[id]
            => \/ /\ reports[id].status = "absent"
                  /\ reports'[id] = [NoEntry EXCEPT !.status = "processing"]
                  /\ threads[id].pc = "none"
                  /\ threads'[id].pc = "started"
               \/ /\ reports[id].status = "processing"
                  /\ threads[id].pc = "reported"
                  /\ threads'[id].pc = "done"
                  /\ reports'[id] = [NoEntry EXCEPT !.status = "completed",
                                                    !.data = threads[id].result]
                  /\ threads[id].result.present
                  /\ threads[id].result.topic = threads[id].topic
               \/ /\ reports[id].status = "processing"
                  /\ threads[id].pc \notin {"none", "done"}
                  /\ threads'[id].pc = "done"
                  /\ faults' = faults + 1
                  /\ reports'[id] = [NoEntry EXCEPT !.status = "error",
                                                    !.error = TRUE]]_vars
    /\ [][\A id \in ReportIds :
            threads'[id].pc # threads[id].pc /\ threads[id].pc = "none"
            => reports'[id].status = "processing"]_vars
    /\ [](\A id \in ReportIds :
            /\ threads[id].pc \notin {"none", "done"} => reports[id].status = "processing"
            /\ threads[id].pc = "none" <=> reports[id].status = "absent")
    /\ [][\A id \in ReportIds :
            Handled("report_status") /\ request'.id = id
            => IF reports[id].status = "absent"
               THEN response'.code = 404 /\ response'.body = "not_found"
               ELSE response'.code = 200 /\ response'.entry = reports[id]]_vars
    /\ \A id \in ReportIds :
          (reports[id].status = "processing")
             ~> (reports[id].status \in {"completed", "error"})

\* two concurrent requests: one run returned its report, the other one raised
\* after the first had started, and a status request was answered not_found
C29_Witness ==
    /\ \E id \in ReportIds :
          /\ reports[id].status = "completed"
          /\ reports[id].data.present
          /\ reports[id].data.content # NoReport.content
    /\ \E id \in ReportIds : reports[id].status = "error" /\ reports[id].error
    /\ request.route = "report_status"
    /\ response.code = 200
    /\ response.entry.status = "processing"

(***************************************************************************)
(* Properties of the chat-bot endpoint (FeishuSpec)                        *)
(***************************************************************************)
\* C30 (as claimed): a message whose text is empty (or blank), or is only the
\* @mention of the bot, is answered with the help response, success = true and
\* the help text, as the explicit help command is.
C30_EmptyMessageGetsHelp ==
    (/\ response # NoReply
     /\ strip(request.text) \in {<<>>, <<Mention>>})
    => response = _handle_help

==========================================================================
